---- MODULE Spec2Model ----
(***************************************************************************)
(* A model of shturno/automation-scripts (python_automation):              *)
(*   - utils/config_loader.py   ConfigLoader (environment -> file ->       *)
(*                              default lookup)                            *)
(*   - utils/data_utils.py      save_json / load_json / save_csv over a    *)
(*                              small file system                          *)
(*   - automations/schedule_task.py   run_scheduler's polling loop and     *)
(*                              its signal handler                         *)
(*   - scrapers/basic_scraper.py      BasicScraper's rate limiter and      *)
(*                              get_page, NewsScraper.extract_data         *)
(* The components share no state, so each has a specification of its own   *)
(* (SpecConfig, SpecStore, SpecSched, SpecScraper, SpecExtract) in which   *)
(* the other components' variables keep their initial values.              *)
(*                                                                         *)
(* Text is a sequence of one-character strings; Python values are records  *)
(* [t, s, n, items] (see PyNone .. PyDict).                                *)
(***************************************************************************)
EXTENDS Integers, Sequences, FiniteSets, TLC

VARIABLES
    \* ---- utils/config_loader.py
    env,          \* os.environ: a partial function, variable name -> value
    config,       \* ConfigLoader.config: [sections, defaults] as parsed
    cfg_call,     \* the last ConfigLoader call: [op, section, key, default]
    cfg_ret,      \* what that call returned
    \* ---- utils/data_utils.py and the file system under it
    platform,     \* [os, enc]: os.name and the locale's preferred encoding
    fs_dirs,      \* the directories that exist (the working directory always does)
    fs_files,     \* the files that exist: a partial function, path -> bytes
    st_pc,        \* where the running save is: "idle" between calls
    st_call,      \* the running or last call: [op, data, path, pretty]
    st_ret,       \* what the last finished call returned
    st_temp,      \* temp_path of the running save: <<>> while unbound
    st_old,       \* the target as the running or last save found it: [exists, bytes]
    st_prev,      \* the call before st_call and what it returned: [call, ret]
    saves,        \* the number of non-empty saves begun
    \* ---- automations/schedule_task.py
    sc_pc,        \* where run_scheduler is: "poll", "run", "in_job", "sleep",
                  \* "returned" (it returned), "exited" (SystemExit left it)
    sc_now,       \* the clock, in ticks of the loop's sleep
    sc_next,      \* schedule's next_run of every job
    sc_queue,     \* the due jobs run_pending still has to run, in order
    sc_job,       \* the job that is running: "none" between jobs
    sc_ret,       \* run_scheduler's return value: "none" until it returns
    sc_status,    \* the process: "alive", or "exit 0" after sys.exit(0)
    sc_signal,    \* the signal that was delivered: "none" before
    sc_at,        \* sc_pc and sc_job when the signal was delivered: [pc, job]
    sc_failed,    \* the jobs whose task raised
    \* ---- scrapers/basic_scraper.py: BasicScraper
    clock,        \* time.time(), in seconds
    rate_limit,   \* self.rate_limit
    min_delay,    \* self.min_delay
    max_delay,    \* self.max_delay
    last_request_time,   \* self.last_request_time
    gp_call,      \* the last get_page call: [op, url, outcome, status]
    gp_ret,       \* what it returned: "None" or "soup"; "raised" if it raised
    gp_limit,     \* what its rate limiter did: [ran, drew, elapsed, delay, slept]
    gp_get,       \* the last GET this instance issued: [issued, at, limited]
    gp_gap,       \* the time between the last two GETs, both rate limited:
                  \* [known, gap, min_delay]
    \* ---- scrapers/basic_scraper.py: NewsScraper.extract_data
    ex_pc,        \* "idle", "loop" (inside the for), "done" (returned)
    ex_doc,       \* the article nodes of the document, in document order
    ex_i,         \* the index of the article the loop comes to next
    ex_articles,  \* the list "articles"
    ex_from,      \* for each record of ex_articles, the index of its node
    \* ---- utils/data_utils.py: safe_filename
    fn_pc,        \* where safe_filename is: "call", "replaced", "spaces",
                  \* "underscores", "done" (returned)
    fn_in,        \* its argument
    fn_name,      \* its local variable filename; at "done", what it returned
    \* ---- utils/data_utils.py: ensure_directory
    ed_log        \* the calls of ensure_directory made so far, oldest first:
                  \* argument, what the OS refuses, result, directories
                  \* before and after

cfgVars == <<env, config, cfg_call, cfg_ret>>

storeVars == <<platform, fs_dirs, fs_files, st_pc, st_call, st_ret, st_temp,
               st_old, st_prev, saves>>

schedVars == <<sc_pc, sc_now, sc_next, sc_queue, sc_job, sc_ret, sc_status,
               sc_signal, sc_at, sc_failed>>

scraperVars == <<clock, rate_limit, min_delay, max_delay, last_request_time,
                 gp_call, gp_ret, gp_limit, gp_get, gp_gap>>

extractVars == <<ex_pc, ex_doc, ex_i, ex_articles, ex_from>>

filenameVars == <<fn_pc, fn_in, fn_name>>

vars == <<cfgVars, storeVars, schedVars, scraperVars, extractVars, filenameVars,
          ed_log>>

\* Each component's steps leave the other components alone
ConfigFrame == UNCHANGED <<storeVars, schedVars, scraperVars, extractVars, filenameVars, ed_log>>

StoreFrame == UNCHANGED <<cfgVars, schedVars, scraperVars, extractVars, filenameVars, ed_log>>

SchedFrame == UNCHANGED <<cfgVars, storeVars, scraperVars, extractVars, filenameVars, ed_log>>

ScraperFrame == UNCHANGED <<cfgVars, storeVars, schedVars, extractVars, filenameVars, ed_log>>

ExtractFrame == UNCHANGED <<cfgVars, storeVars, schedVars, scraperVars, filenameVars, ed_log>>

FilenameFrame ==
    UNCHANGED <<cfgVars, storeVars, schedVars, scraperVars, extractVars, ed_log>>

DirectoryFrame ==
    UNCHANGED <<cfgVars, schedVars, scraperVars, extractVars, filenameVars>>

----------------------------------------------------------------------------
(* Python values.  t is the type; s the text of a str; n the number of an  *)
(* int or bool (True = 1, False = 0); items the members of a list, or the  *)
(* [k, v] entries of a dict in insertion order.                            *)

PyNone == [t |-> "none", s |-> <<>>, n |-> 0, items |-> <<>>]

PyBool(b) == [t |-> "bool", s |-> <<>>, n |-> IF b THEN 1 ELSE 0, items |-> <<>>]

PyInt(i) == [t |-> "int", s |-> <<>>, n |-> i, items |-> <<>>]

PyStr(str) == [t |-> "str", s |-> str, n |-> 0, items |-> <<>>]

PyList(xs) == [t |-> "list", s |-> <<>>, n |-> 0, items |-> xs]

\* An exception that leaves the call, in the place of its return value
PyRaise(exc) == [t |-> "raise", s |-> <<exc>>, n |-> 0, items |-> <<>>]

PyDict(kvs) == [t |-> "dict", s |-> <<>>, n |-> 0, items |-> kvs]

----------------------------------------------------------------------------
(* str.upper() and str.lower() on the letters the model's names use.       *)

\* Index of the first character of cs in str from index i on; 0 if there
\* is none
RECURSIVE IndexFrom(_, _, _)
IndexFrom(str, cs, i) ==
    IF i > Len(str) THEN 0
    ELSE IF str[i] \in cs THEN i ELSE IndexFrom(str, cs, i + 1)

UpperChar(c) ==
    CASE c = "d" -> "D"
      [] c = "b" -> "B"
      [] c = "h" -> "H"
      [] c = "p" -> "P"
      [] c = "x" -> "X"
      [] OTHER -> c

LowerChar(c) ==
    CASE c = "D" -> "d"
      [] c = "B" -> "b"
      [] c = "H" -> "h"
      [] c = "P" -> "p"
      [] c = "X" -> "x"
      [] c = "T" -> "t"
      [] c = "R" -> "r"
      [] c = "U" -> "u"
      [] c = "E" -> "e"
      [] c = "O" -> "o"
      [] c = "N" -> "n"
      [] OTHER -> c

Upper(str) == [i \in DOMAIN str |-> UpperChar(str[i])]

Lower(str) == [i \in DOMAIN str |-> LowerChar(str[i])]

\* The whitespace of the model's texts
Whitespace == {" ", "\t", "\n", "\r"}

\* str.strip(): the whitespace at both ends removed
RECURSIVE Strip(_)
Strip(str) ==
    IF str = <<>> THEN <<>>
    ELSE IF Head(str) \in Whitespace THEN Strip(Tail(str))
    ELSE IF str[Len(str)] \in Whitespace THEN Strip(SubSeq(str, 1, Len(str) - 1))
    ELSE str

----------------------------------------------------------------------------
(* json.dump(data, temp_file, ensure_ascii=False[, indent=2]): the text it *)
(* writes, chunk after chunk, until it ends or raises.  A result is        *)
(* [ok, text]: text is what was written, ok is FALSE when a TypeError cut  *)
(* it short.                                                               *)

DigitChar(d) ==
    CASE d = 0 -> "0" [] d = 1 -> "1" [] d = 2 -> "2" [] d = 3 -> "3"
      [] d = 4 -> "4" [] d = 5 -> "5" [] d = 6 -> "6" [] d = 7 -> "7"
      [] d = 8 -> "8" [] OTHER -> "9"

RECURSIVE NatStr(_)
NatStr(i) == IF i < 10 THEN <<DigitChar(i)>>
             ELSE NatStr(i \div 10) \o <<DigitChar(i % 10)>>

\* str(i) of an int
IntStr(i) == IF i < 0 THEN <<"-">> \o NatStr(0 - i) ELSE NatStr(i)

\* json.encoder.py_encode_basestring: the escapes of ensure_ascii=False
RECURSIVE JsonEscape(_)
JsonEscape(str) ==
    IF str = <<>> THEN <<>>
    ELSE LET c == Head(str) IN
         (CASE c = "\"" -> <<"\\", "\"">>
            [] c = "\\" -> <<"\\", "\\">>
            [] c = "\n" -> <<"\\", "n">>
            [] OTHER -> <<c>>) \o JsonEscape(Tail(str))

JsonString(str) == <<"\"">> \o JsonEscape(str) \o <<"\"">>

Written(text) == [ok |-> TRUE, text |-> text]

Raised(text) == [ok |-> FALSE, text |-> text]

\* r, and then rest unless r raised
AndThen(r, rest) ==
    IF r.ok THEN [ok |-> rest.ok, text |-> r.text \o rest.text] ELSE r

\* _make_iterencode's _newline_indent at a nesting level (indent=2)
NewlineIndent(level) == <<"\n">> \o [j \in 1..(2 * level) |-> " "]

\* A dict key as _iterencode_dict writes it: a str as it is; True, False,
\* None and ints coerced to text; any other key raises TypeError.
DumpKey(k) ==
    CASE k.t = "str" -> Written(JsonString(k.s))
      [] k.t = "bool" -> Written(JsonString(IF k.n = 1 THEN <<"t", "r", "u", "e">>
                                            ELSE <<"f", "a", "l", "s", "e">>))
      [] k.t = "none" -> Written(JsonString(<<"n", "u", "l", "l">>))
      [] k.t = "int" -> Written(JsonString(IntStr(k.n)))
      [] OTHER -> Raised(<<>>)

RECURSIVE Dump(_, _, _)
RECURSIVE DumpItems(_, _, _, _, _)

\* The members of a list (isDict = FALSE) or the entries of a dict from the
\* i-th on, with the separator before each but the first
DumpItems(items, i, isDict, pretty, level) ==
    IF i > Len(items) THEN Written(<<>>)
    ELSE LET sep == IF i = 1
                    THEN (IF pretty THEN NewlineIndent(level) ELSE <<>>)
                    ELSE (IF pretty THEN <<",">> \o NewlineIndent(level)
                          ELSE <<",", " ">>)
             one == IF isDict
                    THEN AndThen(DumpKey(items[i].k),
                           AndThen(Written(<<":", " ">>),
                                   Dump(items[i].v, pretty, level)))
                    ELSE Dump(items[i], pretty, level)
         IN  AndThen(Written(sep),
               AndThen(one, DumpItems(items, i + 1, isDict, pretty, level)))

\* _iterencode of a value at a nesting level
Dump(v, pretty, level) ==
    CASE v.t = "none" -> Written(<<"n", "u", "l", "l">>)
      [] v.t = "bool" -> Written(IF v.n = 1 THEN <<"t", "r", "u", "e">>
                                 ELSE <<"f", "a", "l", "s", "e">>)
      [] v.t = "int" -> Written(IntStr(v.n))
      [] v.t = "str" -> Written(JsonString(v.s))
      [] v.t \in {"list", "dict"} ->
           LET open == IF v.t = "list" THEN <<"[">> ELSE <<"{">>
               close == IF v.t = "list" THEN <<"]">> ELSE <<"}">>
           IN  IF v.items = <<>> THEN Written(open \o close)
               ELSE AndThen(Written(open),
                      AndThen(DumpItems(v.items, 1, v.t = "dict", pretty, level + 1),
                              Written((IF pretty THEN NewlineIndent(level) ELSE <<>>)
                                      \o close)))
      [] OTHER -> Raised(<<>>)   \* default(o) raises TypeError

JsonDump(data, pretty) == Dump(data, pretty, 0)

----------------------------------------------------------------------------
(* json.load: the value a text parses to, or a JSONDecodeError.  A parse   *)
(* result is [ok, val, next]: next is the index after what was read.       *)

ParseError == [ok |-> FALSE, val |-> PyNone, next |-> 0]

Parsed(v, i) == [ok |-> TRUE, val |-> v, next |-> i]

JsonWhitespace == {" ", "\n", "\r", "\t"}

Digits == {"0", "1", "2", "3", "4", "5", "6", "7", "8", "9"}

DigitValue(c) == CHOOSE d \in 0..9 : DigitChar(d) = c

\* json.decoder.WHITESPACE.match(s, i).end()
RECURSIVE SkipWs(_, _)
SkipWs(txt, i) ==
    IF i <= Len(txt) /\ txt[i] \in JsonWhitespace THEN SkipWs(txt, i + 1) ELSE i

\* Whether txt holds the word w from index i on
HasWord(txt, i, w) ==
    /\ i + Len(w) - 1 <= Len(txt)
    /\ \A j \in 1..Len(w) : txt[i + j - 1] = w[j]

\* py_scanstring from the index after the opening quote, acc the text so far
RECURSIVE ScanString(_, _, _)
ScanString(txt, i, acc) ==
    IF i > Len(txt) THEN ParseError               \* unterminated string
    ELSE IF txt[i] = "\"" THEN Parsed(PyStr(acc), i + 1)
    ELSE IF txt[i] = "\n" THEN ParseError         \* control character
    ELSE IF txt[i] = "\\"
         THEN IF i + 1 > Len(txt) THEN ParseError
              ELSE IF txt[i + 1] \in {"\"", "\\"}
                   THEN ScanString(txt, i + 2, Append(acc, txt[i + 1]))
              ELSE IF txt[i + 1] = "n"
                   THEN ScanString(txt, i + 2, Append(acc, "\n"))
              ELSE ParseError
    ELSE ScanString(txt, i + 1, Append(acc, txt[i]))

\* The digits of NUMBER_RE's integer part from index i on, acc their value
RECURSIVE ScanDigits(_, _, _)
ScanDigits(txt, i, acc) ==
    IF i <= Len(txt) /\ txt[i] \in Digits
    THEN ScanDigits(txt, i + 1, 10 * acc + DigitValue(txt[i]))
    ELSE [val |-> acc, next |-> i]

\* NUMBER_RE: -?(0|[1-9][0-9]*)
ScanNumber(txt, i) ==
    LET neg == i <= Len(txt) /\ txt[i] = "-"
        j == IF neg THEN i + 1 ELSE i
    IN  IF j > Len(txt) \/ txt[j] \notin Digits THEN ParseError
        ELSE IF txt[j] = "0" THEN Parsed(PyInt(0), j + 1)
        ELSE LET d == ScanDigits(txt, j, 0)
             IN  Parsed(PyInt(IF neg THEN 0 - d.val ELSE d.val), d.next)

\* dict(pairs): a repeated key keeps its first place and takes the last value
SetEntry(entries, key, val) ==
    IF \E j \in DOMAIN entries : entries[j].k = key
    THEN [j \in DOMAIN entries |->
            IF entries[j].k = key THEN [k |-> key, v |-> val] ELSE entries[j]]
    ELSE Append(entries, [k |-> key, v |-> val])

RECURSIVE ScanValue(_, _)
RECURSIVE ScanArray(_, _, _)
RECURSIVE ScanObject(_, _, _)

\* JSONArray after a member: i is at the first member, acc the members read
ScanArray(txt, i, acc) ==
    LET m == ScanValue(txt, i) IN
    IF ~m.ok THEN ParseError
    ELSE LET j == SkipWs(txt, m.next)
             got == Append(acc, m.val)
         IN  IF j > Len(txt) THEN ParseError
             ELSE IF txt[j] = "]" THEN Parsed(PyList(got), j + 1)
             ELSE IF txt[j] = "," THEN ScanArray(txt, SkipWs(txt, j + 1), got)
             ELSE ParseError

\* JSONObject: i is at the quote opening a key, acc the entries read
ScanObject(txt, i, acc) ==
    IF i > Len(txt) \/ txt[i] # "\"" THEN ParseError
    ELSE LET key == ScanString(txt, i + 1, <<>>) IN
         IF ~key.ok THEN ParseError
         ELSE LET c == SkipWs(txt, key.next) IN
              IF c > Len(txt) \/ txt[c] # ":" THEN ParseError
              ELSE LET m == ScanValue(txt, SkipWs(txt, c + 1)) IN
                   IF ~m.ok THEN ParseError
                   ELSE LET j == SkipWs(txt, m.next)
                            got == SetEntry(acc, key.val, m.val)
                        IN  IF j > Len(txt) THEN ParseError
                            ELSE IF txt[j] = "}" THEN Parsed(PyDict(got), j + 1)
                            ELSE IF txt[j] = ","
                                 THEN ScanObject(txt, SkipWs(txt, j + 1), got)
                            ELSE ParseError

\* json.scanner.py_make_scanner's _scan_once at index i
ScanValue(txt, i) ==
    IF i > Len(txt) THEN ParseError
    ELSE CASE txt[i] = "\"" -> ScanString(txt, i + 1, <<>>)
           [] txt[i] = "{" ->
                LET j == SkipWs(txt, i + 1) IN
                IF j <= Len(txt) /\ txt[j] = "}" THEN Parsed(PyDict(<<>>), j + 1)
                ELSE ScanObject(txt, j, <<>>)
           [] txt[i] = "[" ->
                LET j == SkipWs(txt, i + 1) IN
                IF j <= Len(txt) /\ txt[j] = "]" THEN Parsed(PyList(<<>>), j + 1)
                ELSE ScanArray(txt, j, <<>>)
           [] HasWord(txt, i, <<"n", "u", "l", "l">>) -> Parsed(PyNone, i + 4)
           [] HasWord(txt, i, <<"t", "r", "u", "e">>) -> Parsed(PyBool(TRUE), i + 4)
           [] HasWord(txt, i, <<"f", "a", "l", "s", "e">>) -> Parsed(PyBool(FALSE), i + 5)
           [] OTHER -> ScanNumber(txt, i)

\* JSONDecoder.decode: one value between optional whitespace, or an error
\* ([ok |-> FALSE]: JSONDecodeError)
JsonLoads(txt) ==
    LET r == ScanValue(txt, SkipWs(txt, 1)) IN
    IF r.ok /\ SkipWs(txt, r.next) = Len(txt) + 1 THEN r ELSE ParseError

\* Python's ==: True = 1 and False = 0; lists member by member; dicts by
\* their keys' values whatever the order of their entries.
RECURSIVE PyEq(_, _)
PyEq(a, b) ==
    CASE a.t \in {"int", "bool"} /\ b.t \in {"int", "bool"} -> a.n = b.n
      [] a.t # b.t -> FALSE
      [] a.t = "str" -> a.s = b.s
      [] a.t = "list" ->
           /\ Len(a.items) = Len(b.items)
           /\ \A j \in DOMAIN a.items : PyEq(a.items[j], b.items[j])
      [] a.t = "dict" ->
           /\ Len(a.items) = Len(b.items)
           /\ \A j \in DOMAIN a.items : \E m \in DOMAIN b.items :
                 /\ PyEq(a.items[j].k, b.items[m].k)
                 /\ PyEq(a.items[j].v, b.items[m].v)
      [] OTHER -> a.t = "none"

----------------------------------------------------------------------------
(* Text and bytes.  A byte is named by the ASCII character it encodes, or  *)
(* "xHH".  "U+00E9" (e acute) and "U+0100" (A macron) are the non-ASCII    *)
(* characters of the model.                                                *)

\* TextIOWrapper's encoder for one character: [ok, bytes]; ok is FALSE for
\* a UnicodeEncodeError
EncodeChar(c, enc) ==
    CASE c = "U+00E9" /\ enc = "utf-8" -> [ok |-> TRUE, bytes |-> <<"xC3", "xA9">>]
      [] c = "U+00E9" -> [ok |-> TRUE, bytes |-> <<"xE9">>]   \* cp1252, iso8859-1
      [] c = "U+0100" /\ enc = "utf-8" -> [ok |-> TRUE, bytes |-> <<"xC4", "x80">>]
      [] c = "U+0100" -> [ok |-> FALSE, bytes |-> <<>>]
      [] OTHER -> [ok |-> TRUE, bytes |-> <<c>>]

\* The bytes a text is written as, up to the first character that cannot be
\* encoded
RECURSIVE Encode(_, _)
Encode(text, enc) ==
    IF text = <<>> THEN [ok |-> TRUE, bytes |-> <<>>]
    ELSE LET h == EncodeChar(Head(text), enc) IN
         IF ~h.ok THEN h
         ELSE LET r == Encode(Tail(text), enc)
              IN  [ok |-> r.ok, bytes |-> h.bytes \o r.bytes]

\* bytes.decode('utf-8'): [ok, text]; ok is FALSE for a UnicodeDecodeError
RECURSIVE Utf8Decode(_)
Utf8Decode(bytes) ==
    IF bytes = <<>> THEN [ok |-> TRUE, text |-> <<>>]
    ELSE LET b == Head(bytes)
             two == IF Len(bytes) >= 2 THEN <<bytes[1], bytes[2]>> ELSE <<>>
             c == CASE two = <<"xC3", "xA9">> -> "U+00E9"
                    [] two = <<"xC4", "x80">> -> "U+0100"
                    [] OTHER -> b
             n == IF two \in {<<"xC3", "xA9">>, <<"xC4", "x80">>} THEN 2 ELSE 1
         IN  IF n = 1 /\ b \in {"xC3", "xA9", "xC4", "x80", "xE9"}
             THEN [ok |-> FALSE, text |-> <<>>]
             ELSE LET r == Utf8Decode(SubSeq(bytes, n + 1, Len(bytes)))
                  IN  [ok |-> r.ok, text |-> <<c>> \o r.text]

----------------------------------------------------------------------------
(* csv.DictWriter(temp_file, fieldnames=data[0].keys()): writeheader() and *)
(* writerows(data), as [ok, text] like JsonDump.                           *)

\* What the csv writer makes of a field's value: None is '', a str itself,
\* anything else its str()
CsvField(v) ==
    CASE v.t = "none" -> <<>>
      [] v.t = "str" -> v.s
      [] v.t = "int" -> IntStr(v.n)
      [] v.t = "bool" -> IF v.n = 1 THEN <<"T", "r", "u", "e">>
                         ELSE <<"F", "a", "l", "s", "e">>
      [] OTHER -> <<"?">>

RECURSIVE DoubleQuotes(_)
DoubleQuotes(str) ==
    IF str = <<>> THEN <<>>
    ELSE (IF Head(str) = "\"" THEN <<"\"", "\"">> ELSE <<Head(str)>>)
         \o DoubleQuotes(Tail(str))

\* QUOTE_MINIMAL: a field holding the delimiter, the quote character or a
\* line break is quoted, its quotes doubled
CsvQuote(str) ==
    IF \E j \in DOMAIN str : str[j] \in {",", "\"", "\r", "\n"}
    THEN <<"\"">> \o DoubleQuotes(str) \o <<"\"">>
    ELSE str

\* One record: the fields joined by commas, then the line terminator \r\n;
\* the text layer of a file opened without newline='' writes \n as os.linesep
RECURSIVE CsvJoin(_)
CsvJoin(fields) ==
    IF fields = <<>> THEN <<>>
    ELSE IF Len(fields) = 1 THEN CsvQuote(fields[1])
    ELSE CsvQuote(fields[1]) \o <<",">> \o CsvJoin(Tail(fields))

CsvLine(fields, os) ==
    CsvJoin(fields) \o (IF os = "nt" THEN <<"\r", "\r", "\n">> ELSE <<"\r", "\n">>)

DictKeys(d) == [j \in DOMAIN d.items |-> d.items[j].k]

\* dict.get(key, '')
DictGet(d, key) ==
    IF \E j \in DOMAIN d.items : d.items[j].k = key
    THEN (d.items[CHOOSE j \in DOMAIN d.items : d.items[j].k = key]).v
    ELSE PyStr(<<>>)

\* DictWriter._dict_to_list: a key outside fieldnames raises ValueError
RowFits(row, names) ==
    /\ row.t = "dict"
    /\ \A j \in DOMAIN row.items : \E m \in DOMAIN names : names[m] = row.items[j].k

RECURSIVE CsvRows(_, _, _, _)
CsvRows(rows, i, names, os) ==
    IF i > Len(rows) THEN Written(<<>>)
    ELSE IF ~RowFits(rows[i], names) THEN Raised(<<>>)
    ELSE AndThen(Written(CsvLine([j \in DOMAIN names |->
                                    CsvField(DictGet(rows[i], names[j]))], os)),
                 CsvRows(rows, i + 1, names, os))

CsvDump(data, os) ==
    IF data.items[1].t # "dict" THEN Raised(<<>>)   \* data[0].keys()
    ELSE LET names == DictKeys(data.items[1]) IN
         AndThen(Written(CsvLine([j \in DOMAIN names |-> CsvField(names[j])], os)),
                 CsvRows(data.items, 1, names, os))

----------------------------------------------------------------------------
(* csv.DictReader(f) over a file opened with newline='', and list(reader). *)

\* csv.reader: the records of txt, each the sequence of its fields; an
\* empty line is the record <<>>.  st is the parser's state: "start" (of a
\* record), "eat" (after \r: a \n that follows belongs to it), "sfield"
\* (start of a field), "infield", "quoted", "qq" (a quote met inside quotes).
RECURSIVE CsvScan(_, _, _, _, _, _)
CsvScan(txt, i, st, fld, rec, rows) ==
    IF i > Len(txt)
    THEN IF st \in {"start", "eat"} THEN rows ELSE Append(rows, Append(rec, fld))
    ELSE LET c == txt[i]
             eol == IF c = "\r" THEN "eat" ELSE "start"
         IN
         CASE st = "eat" ->
                CsvScan(txt, IF c = "\n" THEN i + 1 ELSE i, "start", fld, rec, rows)
           [] st = "start" ->
                IF c \in {"\r", "\n"}
                THEN CsvScan(txt, i + 1, eol, <<>>, <<>>, Append(rows, <<>>))
                ELSE CsvScan(txt, i, "sfield", <<>>, <<>>, rows)
           [] st \in {"sfield", "infield", "qq"} ->
                IF c \in {"\r", "\n"}
                THEN CsvScan(txt, i + 1, eol, <<>>, <<>>, Append(rows, Append(rec, fld)))
                ELSE IF c = ","
                THEN CsvScan(txt, i + 1, "sfield", <<>>, Append(rec, fld), rows)
                ELSE IF c = "\"" /\ st = "sfield"
                THEN CsvScan(txt, i + 1, "quoted", fld, rec, rows)
                ELSE IF c = "\"" /\ st = "qq"
                THEN CsvScan(txt, i + 1, "quoted", Append(fld, c), rec, rows)
                ELSE CsvScan(txt, i + 1, "infield", Append(fld, c), rec, rows)
           [] OTHER ->   \* "quoted"
                IF c = "\""
                THEN CsvScan(txt, i + 1, "qq", fld, rec, rows)
                ELSE CsvScan(txt, i + 1, "quoted", Append(fld, c), rec, rows)

CsvRecords(txt) == CsvScan(txt, 1, "start", <<>>, <<>>, <<>>)

\* DictReader's dict for one record: dict(zip(fieldnames, row)); the fields
\* beyond the names go, as a list, under the key None (restkey); the names
\* beyond the fields get None (restval)
RECURSIVE ZipRow(_, _, _, _)
ZipRow(names, row, j, entries) ==
    IF j > Len(names)
    THEN IF Len(row) > Len(names)
         THEN SetEntry(entries, PyNone,
                       PyList([m \in 1..(Len(row) - Len(names)) |->
                                  PyStr(row[Len(names) + m])]))
         ELSE entries
    ELSE ZipRow(names, row, j + 1,
                SetEntry(entries, PyStr(names[j]),
                         IF j <= Len(row) THEN PyStr(row[j]) ELSE PyNone))

\* list(reader): the first record is the field names; of the others the
\* empty ones are skipped
RECURSIVE DictRows(_, _, _)
DictRows(names, records, j) ==
    IF j > Len(records) THEN <<>>
    ELSE (IF records[j] = <<>> THEN <<>>
          ELSE <<PyDict(ZipRow(names, records[j], 1, <<>>))>>)
         \o DictRows(names, records, j + 1)

CsvLoads(txt) ==
    LET records == CsvRecords(txt) IN
    IF records = <<>> THEN PyList(<<>>)
    ELSE PyList(DictRows(records[1], records, 2))

----------------------------------------------------------------------------
(* ConfigLoader                                                            *)

\* env_prefix: 'APP_' unless the constructor is given another
EnvPrefix == <<"A", "P", "P", "_">>

\* The section and key arguments callers pass: "db", "Db", "x"; "h", "H", "p"
Sections == {<<"d", "b">>, <<"D", "b">>, <<"x">>}

Keys == {<<"h">>, <<"H">>, <<"p">>}

\* Values of environment variables and of options of the file
CfgValues == {<<"p", "r", "o", "d">>, <<"l", "h">>, <<>>}

\* Values only the file holds: "5%", "%(p)s"
PercentValues == {<<"5", "%">>, <<"%", "(", "p", ")", "s">>}

\* Defaults callers pass: None, an int, a str
CfgDefaults == {PyNone, PyInt(5432), PyStr(<<"d", "f">>)}

\* f"{self.env_prefix}{section.upper()}_{key.upper()}"
EnvVarName(section, key) == EnvPrefix \o Upper(section) \o <<"_">> \o Upper(key)

EnvNames == {EnvVarName(s, k) : s \in Sections, k \in Keys}

\* configparser's default_section
DefaultSection == <<"D", "E", "F", "A", "U", "L", "T">>

\* RawConfigParser.optionxform: option names are lower-cased, on reading the
\* file and on every lookup; section names are taken as they are.
OptionXform(key) == Lower(key)

\* RawConfigParser.has_option as get() resolves it: the section must exist
\* (or be the default section); the option is looked up in the section and
\* then in the [DEFAULT] section.
HasOption(cfg, section, key) ==
    /\ section \in DOMAIN cfg.sections \/ section = DefaultSection
    /\ \/ /\ section \in DOMAIN cfg.sections
          /\ OptionXform(key) \in DOMAIN cfg.sections[section]
       \/ OptionXform(key) \in DOMAIN cfg.defaults

\* RawConfigParser.get for an option HasOption finds
OptionValue(cfg, section, key) ==
    IF /\ section \in DOMAIN cfg.sections
       /\ OptionXform(key) \in DOMAIN cfg.sections[section]
    THEN cfg.sections[section][OptionXform(key)]
    ELSE cfg.defaults[OptionXform(key)]

\* The interpolation depth configparser allows (MAX_INTERPOLATION_DEPTH)
MaxInterpolationDepth == 10

Interpolated(text) == [ok |-> TRUE, text |-> text, exc |-> "none"]

InterpolationError(exc) == [ok |-> FALSE, text |-> <<>>, exc |-> exc]

\* BasicInterpolation, which ConfigParser() applies to every value it
\* returns: "%%" is a "%", "%(name)s" the interpolated value of the option
\* name of the same section (or of [DEFAULT]), any other "%" an
\* InterpolationSyntaxError; [ok, text, exc]
RECURSIVE Interpolate(_, _, _, _, _, _)
Interpolate(cfg, section, txt, i, acc, depth) ==
    IF depth > MaxInterpolationDepth THEN InterpolationError("InterpolationDepthError")
    ELSE IF i > Len(txt) THEN Interpolated(acc)
    ELSE IF txt[i] # "%" THEN Interpolate(cfg, section, txt, i + 1, Append(acc, txt[i]), depth)
    ELSE IF i = Len(txt) THEN InterpolationError("InterpolationSyntaxError")
    ELSE IF txt[i + 1] = "%"
    THEN Interpolate(cfg, section, txt, i + 2, Append(acc, "%"), depth)
    ELSE IF txt[i + 1] # "(" THEN InterpolationError("InterpolationSyntaxError")
    ELSE LET close == IndexFrom(txt, {")"}, i + 2)
             name == OptionXform(SubSeq(txt, i + 2, close - 1))
         IN  IF close <= i + 2 \/ close = Len(txt) \/ txt[close + 1] # "s"
             THEN InterpolationError("InterpolationSyntaxError")
             ELSE IF ~HasOption(cfg, section, name)
             THEN InterpolationError("InterpolationMissingOptionError")
             ELSE LET inner == Interpolate(cfg, section, OptionValue(cfg, section, name),
                                           1, <<>>, depth + 1)
                  IN  IF ~inner.ok THEN inner
                      ELSE Interpolate(cfg, section, txt, close + 2,
                                       acc \o inner.text, depth)

\* self.config.get(section, key) for an option HasOption finds: the str, or
\* the InterpolationError, which is neither NoSectionError nor NoOptionError
\* and leaves ConfigLoader.get
ParserGet(cfg, section, key) ==
    LET r == Interpolate(cfg, section, OptionValue(cfg, section, key), 1, <<>>, 1)
    IN  IF r.ok THEN PyStr(r.text) ELSE PyRaise(r.exc)

\* ConfigLoader.get(section, key, default)
ConfigGet(e, cfg, section, key, default) ==
    LET env_var == EnvVarName(section, key) IN
    IF env_var \in DOMAIN e
    THEN PyStr(e[env_var])
    ELSE IF HasOption(cfg, section, key)
         THEN ParserGet(cfg, section, key)
         ELSE default

\* The parsed files the model starts from.  Option names are lower case, as
\* the parser stores them.
Options(names) == UNION {[d -> CfgValues] : d \in SUBSET names}

ConfigFiles ==
    {[sections |-> secs, defaults |-> dflt] :
        secs \in {<<>>} \cup [{<<"d", "b">>} -> Options({<<"h">>})]
                 \cup [{<<"d", "b">>} -> [{<<"h">>} -> PercentValues]]
                 \cup [{<<"d", "b">>, <<"x">>} -> {[k \in {<<"h">>} |-> <<"l", "h">>]}],
        dflt \in Options({<<"p">>})}

NoCall == [op |-> "none", section |-> <<>>, key |-> <<>>, default |-> PyNone,
           delimiter |-> <<>>]

InitConfigVars ==
    /\ env \in UNION {[d -> CfgValues \ {<<"l", "h">>}] : d \in SUBSET EnvNames}
    /\ config \in ConfigFiles
    /\ cfg_call = NoCall
    /\ cfg_ret = PyNone

\* A call of ConfigLoader.get
CallGet(section, key, default) ==
    /\ cfg_call' = [op |-> "get", section |-> section, key |-> key,
                    default |-> default, delimiter |-> <<>>]
    /\ cfg_ret' = ConfigGet(env, config, section, key, default)
    /\ UNCHANGED <<env, config>>
    /\ ConfigFrame

\* str.startswith
StartsWith(str, prefix) ==
    Len(str) >= Len(prefix) /\ SubSeq(str, 1, Len(prefix)) = prefix

\* The option names of the model's files and variables, in the order the
\* model lists a dict's keys in
OptionNames == <<<<"h">>, <<"p">>>>

\* The key get_dict makes of a variable's name: env_name[len(prefix):].lower()
EnvKey(name, prefix) == Lower(SubSeq(name, Len(prefix) + 1, Len(name)))

\* dict(self.config[section]) updated with the variables whose names start
\* with the prefix, as the entries for the names of OptionNames from index
\* j on: [ok, entries, exc].  The section's view holds its own options and
\* those of [DEFAULT], each value interpolated as it is read.
RECURSIVE DictEntries(_, _, _, _, _)
DictEntries(e, cfg, section, inFile, j) ==
    IF j > Len(OptionNames) THEN [ok |-> TRUE, entries |-> <<>>, exc |-> "none"]
    ELSE LET key == OptionNames[j]
             prefix == EnvPrefix \o Upper(section) \o <<"_">>
             names == {n \in DOMAIN e : StartsWith(n, prefix) /\ EnvKey(n, prefix) = key}
             value == IF inFile /\ HasOption(cfg, section, key)
                      THEN ParserGet(cfg, section, key) ELSE PyNone
             rest == DictEntries(e, cfg, section, inFile, j + 1)
         IN  IF value.t = "raise" THEN [ok |-> FALSE, entries |-> <<>>, exc |-> value.s[1]]
             ELSE IF ~rest.ok THEN rest
             ELSE IF names # {}
             THEN [rest EXCEPT !.entries =
                      <<[k |-> PyStr(key), v |-> PyStr(e[CHOOSE n \in names : TRUE])]>> \o @]
             ELSE IF value.t = "str"
             THEN [rest EXCEPT !.entries = <<[k |-> PyStr(key), v |-> value]>> \o @]
             ELSE rest

\* get_dict(section): self.config[section] raises KeyError for a section
\* the file lacks, and the handler returns the matching variables alone
GetDict(e, cfg, section) ==
    LET inFile == section \in DOMAIN cfg.sections \/ section = DefaultSection
        r == DictEntries(e, cfg, section, inFile, 1)
    IN  IF r.ok THEN PyDict(r.entries) ELSE PyRaise(r.exc)

CallGetDict(section) ==
    /\ cfg_call' = [op |-> "get_dict", section |-> section, key |-> <<>>,
                    default |-> PyNone, delimiter |-> <<>>]
    /\ cfg_ret' = GetDict(env, config, section)
    /\ UNCHANGED <<env, config>>
    /\ ConfigFrame

NextConfig ==
    \/ \E s \in Sections, k \in Keys, d \in CfgDefaults : CallGet(s, k, d)
    \/ \E s \in Sections : CallGetDict(s)

----------------------------------------------------------------------------
(* ConfigLoader's typed accessors: get_int, get_float, get_boolean,        *)
(* get_list.  A float is the record of its decimal: n / 10^k, or a name    *)
(* ("nan", "inf").                                                         *)

PyFloat(n, k) == [t |-> "float", s |-> <<>>, n |-> n, items |-> <<k>>]

PyFloatNamed(name) == [t |-> "float", s |-> name, n |-> 0, items |-> <<>>]

\* The number a string of digits writes
RECURSIVE NatOf(_)
NatOf(digits) ==
    IF digits = <<>> THEN 0
    ELSE 10 * NatOf(SubSeq(digits, 1, Len(digits) - 1)) + DigitValue(digits[Len(digits)])

AllDigits(str) == \A j \in DOMAIN str : str[j] \in Digits

\* A string without its sign: [neg, body]
Unsigned(str) ==
    IF str # <<>> /\ str[1] \in {"+", "-"}
    THEN [neg |-> str[1] = "-", body |-> Tail(str)]
    ELSE [neg |-> FALSE, body |-> str]

\* int(str): blanks around, a sign, digits; [ok, val], ok FALSE for the
\* ValueError.  (Digits grouped by "_" are not among the model's values.)
IntOfStr(str) ==
    LET u == Unsigned(Strip(str)) IN
    IF u.body # <<>> /\ AllDigits(u.body)
    THEN [ok |-> TRUE, val |-> PyInt(IF u.neg THEN 0 - NatOf(u.body) ELSE NatOf(u.body))]
    ELSE [ok |-> FALSE, val |-> PyNone]

\* A decimal without the zeros that end its fraction
RECURSIVE DropZeros(_)
DropZeros(frac) ==
    IF frac # <<>> /\ frac[Len(frac)] = "0"
    THEN DropZeros(SubSeq(frac, 1, Len(frac) - 1)) ELSE frac

\* float(str): blanks around, a sign, then "nan", "inf" or "infinity" in
\* any case, or digits with at most one point and a digit on one side of
\* it; [ok, val].  (Exponents are not among the model's values.)
FloatOfStr(str) ==
    LET u == Unsigned(Strip(str))
        point == IndexFrom(u.body, {"."}, 1)
        whole == IF point = 0 THEN u.body ELSE SubSeq(u.body, 1, point - 1)
        frac == IF point = 0 THEN <<>>
                ELSE DropZeros(SubSeq(u.body, point + 1, Len(u.body)))
        n == NatOf(whole \o frac)
    IN  IF Lower(u.body) = <<"n", "a", "n">> THEN [ok |-> TRUE, val |-> PyFloatNamed(<<"nan">>)]
        ELSE IF Lower(u.body) \in {<<"i", "n", "f">>,
                                   <<"i", "n", "f", "i", "n", "i", "t", "y">>}
        THEN [ok |-> TRUE, val |-> PyFloatNamed(<<IF u.neg THEN "-inf" ELSE "inf">>)]
        ELSE IF /\ AllDigits(whole) /\ AllDigits(frac)
                /\ Len(u.body) > (IF point = 0 THEN 0 ELSE 1)
        THEN [ok |-> TRUE, val |-> PyFloat(IF u.neg THEN 0 - n ELSE n, Len(frac))]
        ELSE [ok |-> FALSE, val |-> PyNone]

\* str.split(delimiter) for a delimiter of one character
RECURSIVE Split(_, _, _)
Split(str, delim, acc) ==
    IF str = <<>> THEN <<acc>>
    ELSE IF Head(str) = delim THEN <<acc>> \o Split(Tail(str), delim, <<>>)
    ELSE Split(Tail(str), delim, Append(acc, Head(str)))

\* [item.strip() for item in items if item.strip()]
RECURSIVE StripItems(_)
StripItems(items) ==
    IF items = <<>> THEN <<>>
    ELSE (IF Strip(Head(items)) = <<>> THEN <<>> ELSE <<PyStr(Strip(Head(items)))>>)
         \o StripItems(Tail(items))

\* The words get_boolean takes for True
TrueWords == {<<"t", "r", "u", "e">>, <<"y", "e", "s">>, <<"1">>, <<"o", "n">>,
              <<"t">>, <<"y">>}

\* get_int(section, key, default)
GetInt(e, cfg, section, key, default) ==
    LET value == ConfigGet(e, cfg, section, key, default) IN
    CASE value.t = "raise" -> value
      [] value.t = "none" -> PyNone
      [] value.t = "int" -> value
      [] value.t = "str" -> IF IntOfStr(value.s).ok THEN IntOfStr(value.s).val
                            ELSE default
      [] OTHER -> default            \* TypeError

\* get_float(section, key, default)
GetFloat(e, cfg, section, key, default) ==
    LET value == ConfigGet(e, cfg, section, key, default) IN
    CASE value.t = "raise" -> value
      [] value.t = "none" -> PyNone
      [] value.t = "int" -> PyFloat(value.n, 0)
      [] value.t = "str" -> IF FloatOfStr(value.s).ok THEN FloatOfStr(value.s).val
                            ELSE default
      [] OTHER -> default            \* TypeError

\* get_boolean(section, key, default)
GetBoolean(e, cfg, section, key, default) ==
    LET value == ConfigGet(e, cfg, section, key, default) IN
    CASE value.t = "raise" -> value
      [] value.t = "none" -> PyNone
      [] value.t = "bool" -> value
      [] value.t = "str" -> PyBool(Lower(value.s) \in TrueWords)
      [] value.t = "int" -> PyBool(value.n # 0)
      [] OTHER -> PyBool(value.items # <<>>)

\* get_list(section, key, default, delimiter): get is called without the
\* default; str.split raises ValueError for an empty delimiter
GetList(e, cfg, section, key, default, delimiter) ==
    LET value == ConfigGet(e, cfg, section, key, PyNone) IN
    CASE value.t = "raise" -> value
      [] value.t = "none" -> default
      [] value.t = "str" -> IF delimiter = <<>> THEN PyRaise("ValueError")
                            ELSE PyList(StripItems(Split(value.s, delimiter[1], <<>>)))
      [] OTHER -> default

\* The raw values of the typed accessors' option: "42", " -7 ", "1.50",
\* "abc", "", "True", "no", "maybe", "a, b,,c ", "5%"
RawValues ==
    { <<"4", "2">>, <<" ", "-", "7", " ">>, <<"1", ".", "5", "0">>,
      <<"a", "b", "c">>, <<>>, <<"T", "r", "u", "e">>, <<"n", "o">>,
      <<"m", "a", "y", "b", "e">>,
      <<"a", ",", " ", "b", ",", ",", "c", " ">>, <<"5", "%">> }

\* The defaults callers pass to the typed accessors
IntDefaults == {PyNone, PyInt(5432)}

FloatDefaults == {PyNone, PyFloat(25, 1)}

BoolDefaults == {PyNone, PyBool(TRUE), PyBool(FALSE)}

ListDefaults == {PyNone, PyList(<<PyStr(<<"d">>)>>)}

Delimiters == {<<",">>, <<>>}

\* The typed accessors are called for [db] p, which the file holds or not
\* and which APP_DB_P overrides or not
InitTypedVars ==
    /\ env \in {<<>>} \cup [{EnvVarName(<<"d", "b">>, <<"p">>)} -> RawValues]
    /\ config \in {[sections |-> secs, defaults |-> <<>>] :
                      secs \in {<<>>} \cup [{<<"d", "b">>} -> [{<<"p">>} -> RawValues]]}
    /\ cfg_call = NoCall
    /\ cfg_ret = PyNone

CallGetInt(section, key, default) ==
    /\ cfg_call' = [op |-> "get_int", section |-> section, key |-> key,
                    default |-> default, delimiter |-> <<>>]
    /\ cfg_ret' = GetInt(env, config, section, key, default)
    /\ UNCHANGED <<env, config>>
    /\ ConfigFrame

CallGetFloat(section, key, default) ==
    /\ cfg_call' = [op |-> "get_float", section |-> section, key |-> key,
                    default |-> default, delimiter |-> <<>>]
    /\ cfg_ret' = GetFloat(env, config, section, key, default)
    /\ UNCHANGED <<env, config>>
    /\ ConfigFrame

CallGetBoolean(section, key, default) ==
    /\ cfg_call' = [op |-> "get_boolean", section |-> section, key |-> key,
                    default |-> default, delimiter |-> <<>>]
    /\ cfg_ret' = GetBoolean(env, config, section, key, default)
    /\ UNCHANGED <<env, config>>
    /\ ConfigFrame

CallGetList(section, key, default, delimiter) ==
    /\ cfg_call' = [op |-> "get_list", section |-> section, key |-> key,
                    default |-> default, delimiter |-> delimiter]
    /\ cfg_ret' = GetList(env, config, section, key, default, delimiter)
    /\ UNCHANGED <<env, config>>
    /\ ConfigFrame

NextTyped ==
    \/ \E k \in {<<"p">>, <<"h">>}, d \in IntDefaults : CallGetInt(<<"d", "b">>, k, d)
    \/ \E k \in {<<"p">>, <<"h">>}, d \in FloatDefaults : CallGetFloat(<<"d", "b">>, k, d)
    \/ \E k \in {<<"p">>, <<"h">>}, d \in BoolDefaults : CallGetBoolean(<<"d", "b">>, k, d)
    \/ \E k \in {<<"p">>, <<"h">>}, d \in ListDefaults, delim \in Delimiters :
          CallGetList(<<"d", "b">>, k, d, delim)

----------------------------------------------------------------------------
(* data_utils: save_json, load_json and save_csv over a file system.  A    *)
(* path is the sequence of its components; <<>> is the working directory.  *)

\* The number of saves a behaviour begins
MaxSaves == 1

\* os.name with the encoding open() uses when it is given none
Platforms == {[os |-> "posix", enc |-> "utf-8"],
              [os |-> "posix", enc |-> "iso8859-1"],
              [os |-> "nt", enc |-> "cp1252"]}

\* os.path.dirname
Dirname(path) == SubSeq(path, 1, Len(path) - 1)

\* os.path.exists
Exists(path) == path = <<>> \/ path \in fs_dirs \/ path \in DOMAIN fs_files

\* A directory with the directories above it
WithParents(dir) == {SubSeq(dir, 1, j) : j \in 1..Len(dir)}

\* An object json cannot serialize
PyObject == [t |-> "object", s |-> <<>>, n |-> 0, items |-> <<>>]

Entry(key, val) == [k |-> key, v |-> val]

\* What callers save as JSON: {"k": "e-acute"}, {"v": 42, "a": True},
\* [1, None, "A-macron"], {1: "a"}, [1, <object>]
JsonData ==
    << PyDict(<<Entry(PyStr(<<"k">>), PyStr(<<"U+00E9">>))>>),
       PyDict(<<Entry(PyStr(<<"v">>), PyInt(42)), Entry(PyStr(<<"a">>), PyBool(TRUE))>>),
       PyList(<<PyInt(1), PyNone, PyStr(<<"U+0100">>)>>),
       PyDict(<<Entry(PyInt(1), PyStr(<<"a">>))>>),
       PyList(<<PyInt(1), PyObject>>) >>

\* What callers save as CSV: [], [{"id": 1, "n": "I 1"}],
\* [{"id": 1}, {"id": 2, "x": 3}], [{"n": "e-acute,", "v": None}, {"n": "q"}]
CsvData ==
    << PyList(<<>>),
       PyList(<<PyDict(<<Entry(PyStr(<<"i", "d">>), PyInt(1)),
                         Entry(PyStr(<<"n">>), PyStr(<<"I", " ", "1">>))>>)>>),
       PyList(<<PyDict(<<Entry(PyStr(<<"i", "d">>), PyInt(1))>>),
                PyDict(<<Entry(PyStr(<<"i", "d">>), PyInt(2)),
                         Entry(PyStr(<<"x">>), PyInt(3))>>)>>),
       PyList(<<PyDict(<<Entry(PyStr(<<"n">>), PyStr(<<"U+00E9", ",">>)),
                         Entry(PyStr(<<"v">>), PyNone)>>),
                PyDict(<<Entry(PyStr(<<"n">>), PyStr(<<"q">>))>>)>>) >>

\* The paths callers save to and load from
SavePaths == {<<"out", "t">>}

\* The names NamedTemporaryFile draws, one per save
TempNames == <<"tmp1", "tmp2", "tmp3">>

\* The bytes of a file an earlier run of the program left at the target
OldBytes == <<"[", "0", "]">>

NoStoreCall == [op |-> "none", data |-> PyNone, path |-> <<>>, pretty |-> FALSE]

Absent == [exists |-> FALSE, bytes |-> <<>>]

\* What a reader of a path finds
FileAt(files, path) ==
    IF path \in DOMAIN files THEN [exists |-> TRUE, bytes |-> files[path]] ELSE Absent

\* files with path holding bytes
PutFile(files, path, bytes) ==
    [q \in DOMAIN files \cup {path} |-> IF q = path THEN bytes ELSE files[q]]

\* files without path
DropFile(files, path) == [q \in DOMAIN files \ {path} |-> files[q]]

InitStoreVars ==
    /\ platform \in Platforms
    /\ fs_dirs \in {{}, {<<"out">>}}
    /\ fs_files \in {<<>>} \cup
                    (IF <<"out">> \in fs_dirs
                     THEN {[q \in {<<"out", "t">>} |-> OldBytes]} ELSE {})
    /\ st_pc = "idle"
    /\ st_call = NoStoreCall
    /\ st_ret = PyNone
    /\ st_temp = <<>>
    /\ st_old = Absent
    /\ st_prev = [call |-> NoStoreCall, ret |-> PyNone]
    /\ saves = 0
    /\ ed_log = <<>>

\* The text the running save writes into its temporary file: [ok, text]
DumpOf(call, os) ==
    IF call.op = "save_json" THEN JsonDump(call.data, call.pretty)
    ELSE CsvDump(call.data, os)

\* os.makedirs(dir): [ok, dirs].  The missing directories are made from the
\* top down; mkdir fails under a file, for the empty path, and at level
\* fail of the path when the OS refuses it (fail = 0: it refuses nothing).
\* What was made before the failure stays.
RECURSIVE Makedirs(_, _, _, _, _)
Makedirs(dirs, files, dir, fail, j) ==
    IF dir = <<>> THEN [ok |-> FALSE, dirs |-> dirs]
    ELSE IF j > Len(dir) THEN [ok |-> TRUE, dirs |-> dirs]
    ELSE IF SubSeq(dir, 1, j) \in dirs THEN Makedirs(dirs, files, dir, fail, j + 1)
    ELSE IF \/ j = fail
            \/ \E i \in 1..j : SubSeq(dir, 1, i) \in DOMAIN files
    THEN [ok |-> FALSE, dirs |-> dirs]
    ELSE Makedirs(dirs \cup {SubSeq(dir, 1, j)}, files, dir, fail, j + 1)

\* A seeded fault of EnsureDirectoryResult: os.makedirs is called without
\* the os.path.exists check, and raises FileExistsError for what exists
EnsureDirectoryUnchecked(dirs, files, dir, fail) ==
    IF dir \in dirs \/ dir \in DOMAIN files
    THEN [ret |-> PyBool(FALSE), dirs |-> dirs]
    ELSE LET m == Makedirs(dirs, files, dir, fail, 1)
         IN  [ret |-> PyBool(m.ok), dirs |-> m.dirs]

\* ensure_directory(directory_path): [ret, dirs].  What exists, a file as
\* well, is left alone and reported as success; the exception of os.makedirs
\* is logged and swallowed.
EnsureDirectoryResult(dirs, files, dir, fail) ==
    IF dir \in dirs \/ dir \in DOMAIN files
    THEN [ret |-> PyBool(TRUE), dirs |-> dirs]
    ELSE LET m == Makedirs(dirs, files, dir, fail, 1)
         IN  [ret |-> PyBool(m.ok), dirs |-> m.dirs]

\* ensure_directory(directory_path) as save_json and save_csv use it: the
\* directories afterwards.  made says whether os.makedirs, when called,
\* succeeds.
EnsureDirectory(dirs, dir, made) ==
    EnsureDirectoryResult(dirs, fs_files, dir, IF made THEN 0 ELSE 1).dirs

\* save_json(data, filepath, pretty) up to the creation of the temporary
\* file: ensure_directory(os.path.dirname(filepath))
SaveJsonCall(data, path, pretty, made) ==
    /\ st_pc = "idle"
    /\ saves < MaxSaves /\ saves < Len(TempNames)
    /\ st_call' = [op |-> "save_json", data |-> data, path |-> path,
                   pretty |-> pretty]
    /\ fs_dirs' = EnsureDirectory(fs_dirs, Dirname(path), made)
    /\ st_old' = FileAt(fs_files, path)
    /\ st_temp' = <<>>
    /\ st_pc' = "mktemp"
    /\ saves' = saves + 1
    /\ st_prev' = [call |-> st_call, ret |-> st_ret]
    /\ UNCHANGED <<platform, fs_files, st_ret>>
    /\ StoreFrame

\* A seeded fault of SaveCsvEmpty: the empty check is missing, and the call
\* goes on to ensure_directory
SaveCsvEmptyUnchecked(path) ==
    /\ st_pc = "idle"
    /\ st_call' = [op |-> "save_csv", data |-> CsvData[1], path |-> path,
                   pretty |-> FALSE]
    /\ fs_dirs' = EnsureDirectory(fs_dirs, Dirname(path), TRUE)
    /\ st_old' = FileAt(fs_files, path)
    /\ st_prev' = [call |-> st_call, ret |-> st_ret]
    /\ st_ret' = PyBool(FALSE)
    /\ UNCHANGED <<platform, fs_files, st_pc, st_temp, saves>>
    /\ StoreFrame

\* save_csv(data, filepath) with data empty: "if not data: return False"
SaveCsvEmpty(path) ==
    /\ st_pc = "idle"
    /\ st_call' = [op |-> "save_csv", data |-> CsvData[1], path |-> path,
                   pretty |-> FALSE]
    /\ st_old' = FileAt(fs_files, path)
    /\ st_prev' = [call |-> st_call, ret |-> st_ret]
    /\ st_ret' = PyBool(FALSE)
    /\ UNCHANGED <<platform, fs_dirs, fs_files, st_pc, st_temp, saves>>
    /\ StoreFrame

\* save_csv(data, filepath) with rows, up to the creation of the temporary
\* file
SaveCsvCall(data, path, made) ==
    /\ st_pc = "idle"
    /\ data.items # <<>>
    /\ saves < MaxSaves /\ saves < Len(TempNames)
    /\ st_call' = [op |-> "save_csv", data |-> data, path |-> path,
                   pretty |-> FALSE]
    /\ fs_dirs' = EnsureDirectory(fs_dirs, Dirname(path), made)
    /\ st_old' = FileAt(fs_files, path)
    /\ st_temp' = <<>>
    /\ st_pc' = "mktemp"
    /\ saves' = saves + 1
    /\ st_prev' = [call |-> st_call, ret |-> st_ret]
    /\ UNCHANGED <<platform, fs_files, st_ret>>
    /\ StoreFrame

\* The except branch of save_json and save_csv: the temporary file is
\* removed if temp_path is bound and the file exists; False is returned.
SaveFails(files) ==
    /\ fs_files' = (IF st_temp # <<>> /\ st_temp \in DOMAIN files
                    THEN DropFile(files, st_temp) ELSE files)
    /\ st_ret' = PyBool(FALSE)
    /\ st_pc' = "idle"
    /\ st_temp' = <<>>

\* tempfile.NamedTemporaryFile(mode='w', delete=False, dir=dirname): an
\* empty file of a fresh name, or an OSError (always, when the directory
\* does not exist)
MkTemp(created) ==
    /\ st_pc = "mktemp"
    /\ LET dir == Dirname(st_call.path) IN
       IF created /\ (dir = <<>> \/ dir \in fs_dirs)
       THEN /\ fs_files' = PutFile(fs_files, dir \o <<TempNames[saves]>>, <<>>)
            /\ st_pc' = "dump"
            /\ UNCHANGED <<st_ret, st_temp>>
       ELSE SaveFails(fs_files)
    /\ UNCHANGED <<platform, fs_dirs, st_call, st_old, st_prev, saves>>
    /\ StoreFrame

\* The body of the with statement and its exit: the dump into the file
\* object, temp_path = temp_file.name, and the close that flushes the text,
\* encoded, to the disk.  An exception of the dump (TypeError, ValueError,
\* UnicodeEncodeError) leaves temp_path unbound; the close still flushes
\* what was written.  flushed = FALSE is an OSError of the close.
WriteTemp(flushed) ==
    /\ st_pc = "dump"
    /\ LET tmp == Dirname(st_call.path) \o <<TempNames[saves]>>
           dump == DumpOf(st_call, platform.os)
           enc == Encode(dump.text, platform.enc)
       IN  IF dump.ok /\ enc.ok
           THEN IF flushed
                THEN /\ fs_files' = PutFile(fs_files, tmp, enc.bytes)
                     /\ st_temp' = tmp
                     /\ st_pc' = "move"
                     /\ UNCHANGED st_ret
                ELSE /\ fs_files' = DropFile(fs_files, tmp)
                     /\ st_ret' = PyBool(FALSE)
                     /\ st_pc' = "idle"
                     /\ st_temp' = <<>>
           ELSE /\ flushed
                /\ SaveFails(PutFile(fs_files, tmp, enc.bytes))
    /\ UNCHANGED <<platform, fs_dirs, st_call, st_old, st_prev, saves>>
    /\ StoreFrame

\* shutil.move(temp_path, filepath), first half: os.rename.  On POSIX it
\* replaces the target in one step.  On Windows it raises FileExistsError
\* when the target exists, and shutil.move, catching OSError, goes on to
\* copy_function(src, real_dst), which opens the target for writing.
MoveRename ==
    /\ st_pc = "move"
    /\ IF platform.os = "nt" /\ st_call.path \in DOMAIN fs_files
       THEN /\ st_pc' = "copy"
            /\ UNCHANGED <<fs_files, st_ret, st_temp>>
       ELSE /\ fs_files' = DropFile(PutFile(fs_files, st_call.path, fs_files[st_temp]),
                                    st_temp)
            /\ st_ret' = PyBool(TRUE)
            /\ st_pc' = "idle"
            /\ st_temp' = <<>>
    /\ UNCHANGED <<platform, fs_dirs, st_call, st_old, st_prev, saves>>
    /\ StoreFrame

\* shutil.copy2 -> copyfile: open(dst, 'wb') truncates the target, or
\* raises OSError
CopyOpen(opened) ==
    /\ st_pc = "copy"
    /\ IF opened
       THEN /\ fs_files' = PutFile(fs_files, st_call.path, <<>>)
            /\ st_pc' = "copying"
            /\ UNCHANGED <<st_ret, st_temp>>
       ELSE SaveFails(fs_files)
    /\ UNCHANGED <<platform, fs_dirs, st_call, st_old, st_prev, saves>>
    /\ StoreFrame

\* copyfile's copy loop and, after it, shutil.move's os.unlink(src); an
\* OSError of the loop leaves the target as far as it was written
CopyWrite(written) ==
    /\ st_pc = "copying"
    /\ IF written
       THEN /\ fs_files' = DropFile(PutFile(fs_files, st_call.path, fs_files[st_temp]),
                                    st_temp)
            /\ st_ret' = PyBool(TRUE)
            /\ st_pc' = "idle"
            /\ st_temp' = <<>>
       ELSE SaveFails(fs_files)
    /\ UNCHANGED <<platform, fs_dirs, st_call, st_old, st_prev, saves>>
    /\ StoreFrame

\* load_json(filepath): None for a missing file, for bytes that are not
\* UTF-8 and for text that is not JSON
LoadJson(files, path) ==
    IF path \notin DOMAIN files THEN PyNone
    ELSE LET text == Utf8Decode(files[path]) IN
         IF ~text.ok THEN PyNone
         ELSE LET r == JsonLoads(text.text) IN
              IF r.ok THEN r.val ELSE PyNone

LoadJsonCall(path) ==
    /\ st_pc = "idle"
    /\ st_call' = [op |-> "load_json", data |-> PyNone, path |-> path,
                   pretty |-> FALSE]
    /\ st_prev' = [call |-> st_call, ret |-> st_ret]
    /\ st_ret' = LoadJson(fs_files, path)
    /\ UNCHANGED <<platform, fs_dirs, fs_files, st_pc, st_temp, st_old, saves>>
    /\ StoreFrame

\* load_csv(filepath): None for a missing file and for bytes that are not
\* UTF-8 (the default of its encoding parameter); else list(DictReader(f))
LoadCsv(files, path) ==
    IF path \notin DOMAIN files THEN PyNone
    ELSE LET text == Utf8Decode(files[path]) IN
         IF ~text.ok THEN PyNone ELSE CsvLoads(text.text)

LoadCsvCall(path) ==
    /\ st_pc = "idle"
    /\ st_call' = [op |-> "load_csv", data |-> PyNone, path |-> path,
                   pretty |-> FALSE]
    /\ st_prev' = [call |-> st_call, ret |-> st_ret]
    /\ st_ret' = LoadCsv(fs_files, path)
    /\ UNCHANGED <<platform, fs_dirs, fs_files, st_pc, st_temp, st_old, saves>>
    /\ StoreFrame

NextStore ==
    \/ \E d \in DOMAIN JsonData, p \in SavePaths, pretty \in BOOLEAN, made \in BOOLEAN :
          SaveJsonCall(JsonData[d], p, pretty, made)
    \/ \E p \in SavePaths : SaveCsvEmpty(p)
    \/ \E d \in DOMAIN CsvData, p \in SavePaths, made \in BOOLEAN :
          SaveCsvCall(CsvData[d], p, made)
    \/ \E created \in BOOLEAN : MkTemp(created)
    \/ \E flushed \in BOOLEAN : WriteTemp(flushed)
    \/ MoveRename
    \/ \E opened \in BOOLEAN : CopyOpen(opened)
    \/ \E written \in BOOLEAN : CopyWrite(written)
    \/ \E p \in SavePaths : LoadJsonCall(p)
    \/ \E p \in SavePaths : LoadCsvCall(p)

----------------------------------------------------------------------------
(* schedule_task: run_scheduler's loop                                     *)
(*     while True: schedule.run_pending(); time.sleep(60)                  *)
(* inside  try ... except KeyboardInterrupt ... except Exception: return   *)
(* False, with handle_signal installed for SIGINT and SIGTERM.  Because    *)
(* handle_signal replaces SIGINT's default handler, no KeyboardInterrupt   *)
(* is raised and that branch is never taken.                               *)

\* The ticks a behaviour lets the clock run
MaxTicks == 3

\* setup_schedule's jobs in the order they are registered
Jobs == <<"backup", "report", "clean">>

\* Their periods.  The clock's tick is the loop's sleep; the periods (one
\* day, one week, 12 hours) are scaled down, keeping their order.
Period == [backup |-> 2, report |-> 3, clean |-> 1]

\* The signals run_scheduler installs handle_signal for
Signals == {"SIGINT", "SIGTERM"}

\* Job.should_run: datetime.now() >= self.next_run
ShouldRun(job, now, next) == now >= next[job]

\* sorted(runnable_jobs): by next_run, jobs of equal next_run in the order
\* of registration; from is the index of Jobs the scan is at, t the time
RECURSIVE DueAt(_, _, _, _)
DueAt(from, t, now, next) ==
    IF from > Len(Jobs) THEN <<>>
    ELSE (IF ShouldRun(Jobs[from], now, next) /\ next[Jobs[from]] = t
          THEN <<Jobs[from]>> ELSE <<>>) \o DueAt(from + 1, t, now, next)

RECURSIVE DueFrom(_, _, _)
DueFrom(t, now, next) ==
    IF t > now THEN <<>> ELSE DueAt(1, t, now, next) \o DueFrom(t + 1, now, next)

RunnableJobs(now, next) == DueFrom(0, now, next)

InitSchedVars ==
    /\ sc_pc = "poll"
    /\ sc_now = 0
    /\ sc_next \in [{"backup", "report", "clean"} -> 1..MaxTicks]
    /\ \A j \in DOMAIN sc_next : sc_next[j] <= Period[j]
    /\ sc_queue = <<>>
    /\ sc_job = "none"
    /\ sc_ret = "none"
    /\ sc_status = "alive"
    /\ sc_signal = "none"
    /\ sc_at = [pc |-> "none", job |-> "none"]
    /\ sc_failed = {}

\* schedule.run_pending(): the jobs that are due, sorted
RunPending ==
    /\ sc_pc = "poll"
    /\ sc_queue' = RunnableJobs(sc_now, sc_next)
    /\ sc_pc' = "run"
    /\ UNCHANGED <<sc_now, sc_next, sc_job, sc_ret, sc_status, sc_signal, sc_at,
                   sc_failed>>
    /\ SchedFrame

\* run_pending's loop: the next due job starts (Job.run calls job_func)
StartJob ==
    /\ sc_pc = "run"
    /\ sc_queue # <<>>
    /\ sc_job' = Head(sc_queue)
    /\ sc_queue' = Tail(sc_queue)
    /\ sc_pc' = "in_job"
    /\ UNCHANGED <<sc_now, sc_next, sc_ret, sc_status, sc_signal, sc_at, sc_failed>>
    /\ SchedFrame

\* The task returns: Job.run sets last_run and schedules the next run
JobReturns ==
    /\ sc_pc = "in_job"
    /\ sc_next' = [sc_next EXCEPT ![sc_job] = sc_now + Period[sc_job]]
    /\ sc_job' = "none"
    /\ sc_pc' = "run"
    /\ UNCHANGED <<sc_now, sc_queue, sc_ret, sc_status, sc_signal, sc_at, sc_failed>>
    /\ SchedFrame

\* The task raises.  Neither Job.run nor run_pending catches: the exception
\* leaves run_pending and the while loop, and run_scheduler's "except
\* Exception" logs "Scheduler error" and returns False.
JobRaises ==
    /\ sc_pc = "in_job"
    /\ sc_failed' = sc_failed \cup {sc_job}
    /\ sc_job' = "none"
    /\ sc_queue' = <<>>
    /\ sc_pc' = "returned"
    /\ sc_ret' = "False"
    /\ UNCHANGED <<sc_now, sc_next, sc_status, sc_signal, sc_at>>
    /\ SchedFrame

\* run_pending is through: time.sleep(60)
EndPending ==
    /\ sc_pc = "run"
    /\ sc_queue = <<>>
    /\ sc_pc' = "sleep"
    /\ UNCHANGED <<sc_now, sc_next, sc_queue, sc_job, sc_ret, sc_status, sc_signal,
                   sc_at, sc_failed>>
    /\ SchedFrame

\* The sleep ends, one tick later, and the loop comes round
Sleep ==
    /\ sc_pc = "sleep"
    /\ sc_now < MaxTicks
    /\ sc_now' = sc_now + 1
    /\ sc_pc' = "poll"
    /\ UNCHANGED <<sc_next, sc_queue, sc_job, sc_ret, sc_status, sc_signal, sc_at,
                   sc_failed>>
    /\ SchedFrame

\* A seeded fault of HandleSignal: the handler only notes the signal, for
\* the loop to look at
HandleSignalFlagOnly(sig) ==
    /\ sc_pc \in {"poll", "run", "in_job", "sleep"}
    /\ sc_signal = "none"
    /\ sc_signal' = sig
    /\ sc_at' = [pc |-> sc_pc, job |-> sc_job]
    /\ UNCHANGED <<sc_pc, sc_now, sc_next, sc_queue, sc_job, sc_ret, sc_status,
                   sc_failed>>
    /\ SchedFrame

\* SIGINT or SIGTERM is delivered while the loop runs.  handle_signal logs
\* and calls sys.exit(0): SystemExit is raised in the main thread where it
\* is (in run_pending, in a task, in the sleep); it is no Exception, so
\* run_scheduler's handlers let it pass, and the process exits with 0.
HandleSignal(sig) ==
    /\ sc_pc \in {"poll", "run", "in_job", "sleep"}
    /\ sc_signal = "none"
    /\ sc_signal' = sig
    /\ sc_at' = [pc |-> sc_pc, job |-> sc_job]
    /\ sc_pc' = "exited"
    /\ sc_status' = "exit 0"
    /\ UNCHANGED <<sc_now, sc_next, sc_queue, sc_job, sc_ret, sc_failed>>
    /\ SchedFrame

NextSched ==
    \/ RunPending
    \/ StartJob
    \/ JobReturns
    \/ JobRaises
    \/ EndPending
    \/ Sleep
    \/ \E sig \in Signals : HandleSignal(sig)

----------------------------------------------------------------------------
(* basic_scraper: BasicScraper's rate limiter and get_page.  Time is in    *)
(* whole seconds.                                                          *)

\* The largest delay a caller configures
MaxDelay == 2

\* The seconds a behaviour lets the clock run
Horizon == 2

\* The min_delay and max_delay values callers pass to enable_rate_limiting,
\* which takes whatever it is given
DelayValues == -1..MaxDelay

\* time.time() when the scraper is constructed: far more than any delay
\* after the 0 that last_request_time starts at
StartClock == MaxDelay + 1

MaxClock == StartClock + Horizon

\* random.uniform(a, b) = a + (b - a) * random(): a value between a and b,
\* whichever is the larger
Uniform(a, b) == IF a <= b THEN a..b ELSE b..a

\* The letters a scheme is made of (urlsplit's scheme_chars, as far as the
\* model's URLs go)
SchemeChars == {"h", "t", "p", "s", "m"}

\* urllib.parse.urlparse(url), as far as get_page reads it: [ok, scheme,
\* netloc]; ok is FALSE for the ValueError of an unbalanced bracket in the
\* authority.  The scheme is what stands before the first colon if that is
\* made of scheme characters; the authority follows "//" up to the next
\* "/", "?" or "#".
UrlParse(url) ==
    LET colon == IndexFrom(url, {":"}, 1)
        hasScheme == /\ colon > 1
                     /\ \A j \in 1..(colon - 1) : url[j] \in SchemeChars
        scheme == IF hasScheme THEN SubSeq(url, 1, colon - 1) ELSE <<>>
        rest == IF hasScheme THEN SubSeq(url, colon + 1, Len(url)) ELSE url
        hasNetloc == Len(rest) >= 2 /\ rest[1] = "/" /\ rest[2] = "/"
        stop == IndexFrom(rest, {"/", "?", "#"}, 3)
        netloc == IF ~hasNetloc THEN <<>>
                  ELSE IF stop = 0 THEN SubSeq(rest, 3, Len(rest))
                  ELSE SubSeq(rest, 3, stop - 1)
        opens == IndexFrom(netloc, {"["}, 1) # 0
        closes == IndexFrom(netloc, {"]"}, 1) # 0
    IN  [ok |-> opens = closes, scheme |-> scheme, netloc |-> netloc]

\* The URLs callers pass: "https://e/p", "e/p", "//e/p", "https:///p",
\* "mp:e", "http://[e/p"
Urls ==
    { <<"h", "t", "t", "p", "s", ":", "/", "/", "e", "/", "p">>,
      <<"e", "/", "p">>,
      <<"/", "/", "e", "/", "p">>,
      <<"h", "t", "t", "p", "s", ":", "/", "/", "/", "p">>,
      <<"m", "p", ":", "e">>,
      <<"h", "t", "t", "p", ":", "/", "/", "[", "e", "/", "p">> }

\* get_page's check: "if not parsed.scheme or not parsed.netloc"
ValidUrl(parsed) == parsed.scheme # <<>> /\ parsed.netloc # <<>>

\* The URLs that pass urlparse and get_page's check
ValidUrls == {url \in Urls : UrlParse(url).ok /\ ValidUrl(UrlParse(url))}

StatusCodes == {200, 304, 404, 503, 999}

\* What session.get comes to: an exception of requests (a
\* RequestException), or a response with a status
Transports ==
    {[kind |-> "ConnectionError", status |-> 0], [kind |-> "Timeout", status |-> 0]}
    \cup {[kind |-> "response", status |-> code] : code \in StatusCodes}

\* A seeded fault of RaiseForStatus: only client errors raise
RaiseForStatusClientOnly(status) == 400 <= status /\ status < 500

\* Response.raise_for_status: HTTPError for 400 <= status < 600
RaiseForStatus(status) == 400 <= status /\ status < 600

NoGetPage == [op |-> "none", url |-> <<>>, outcome |-> "none", status |-> 0]

NoLimit == [ran |-> FALSE, drew |-> FALSE, elapsed |-> 0, delay |-> 0,
            slept |-> FALSE, min |-> 0, max |-> 0]

\* The exceptions get_page meets.  Those of requests derive from
\* RequestException, and all of them from Exception.
RequestExceptions == {"ConnectionError", "Timeout", "HTTPError"}

PyExceptions == RequestExceptions \cup {"ValueError"}

\* A seeded fault of Caught: only "except RequestException" is there
CaughtRequestOnly(exc) == exc \in RequestExceptions

\* get_page's handlers: "except requests.exceptions.RequestException" and
\* "except Exception"
Caught(exc) == exc \in RequestExceptions \/ exc \in PyExceptions

\* What get_page comes to when exc is raised inside its try: both handlers
\* log and return None
Handled(exc) == IF Caught(exc) THEN "None" ELSE "raised"

InitScraperVars ==
    /\ clock = StartClock
    /\ rate_limit = FALSE
    /\ min_delay = 1
    /\ max_delay = 3
    /\ last_request_time = 0
    /\ gp_call = NoGetPage
    /\ gp_ret = "none"
    /\ gp_limit = NoLimit
    /\ gp_get = [issued |-> FALSE, at |-> 0, limited |-> FALSE]
    /\ gp_gap = [known |-> FALSE, gap |-> 0, min_delay |-> 0]

\* enable_rate_limiting(min_delay, max_delay)
EnableRateLimiting(min, max) ==
    /\ rate_limit' = TRUE
    /\ min_delay' = min
    /\ max_delay' = max
    /\ UNCHANGED <<clock, last_request_time, gp_call, gp_ret, gp_limit, gp_get,
                   gp_gap>>
    /\ ScraperFrame

\* Time passes between two calls
Tick ==
    /\ clock < MaxClock
    /\ clock' = clock + 1
    /\ UNCHANGED <<rate_limit, min_delay, max_delay, last_request_time, gp_call,
                   gp_ret, gp_limit, gp_get, gp_gap>>
    /\ ScraperFrame

\* A seeded fault of ApplyRateLimiting: the delay is drawn on every check
\* and is itself the floor the elapsed time is compared against
ApplyRateLimitingRandomFloor(now, u) ==
    IF ~rate_limit
    THEN [raised |-> FALSE, now |-> now, last |-> last_request_time,
          limit |-> NoLimit]
    ELSE LET elapsed == now - last_request_time
             delay == min_delay + u
             wait == elapsed < delay /\ delay >= 0
         IN  [raised |-> FALSE,
              now |-> IF wait THEN now + delay ELSE now,
              last |-> IF wait THEN now + delay ELSE now,
              limit |-> [ran |-> TRUE, drew |-> TRUE, elapsed |-> elapsed,
                         delay |-> delay, slept |-> wait,
                         min |-> min_delay, max |-> max_delay]]

\* _apply_rate_limiting() at time now, u being what random.uniform(0,
\* max_delay - min_delay) yields: [raised, now, last, limit].  raised is the
\* ValueError of time.sleep for a negative delay; now is the time
\* afterwards, last the last_request_time afterwards.
ApplyRateLimiting(now, u) ==
    IF ~rate_limit
    THEN [raised |-> FALSE, now |-> now, last |-> last_request_time,
          limit |-> NoLimit]
    ELSE LET elapsed == now - last_request_time
             delay == min_delay + u
         IN  IF elapsed < min_delay
             THEN IF delay < 0
                  THEN [raised |-> TRUE, now |-> now, last |-> last_request_time,
                        limit |-> [ran |-> TRUE, drew |-> TRUE, elapsed |-> elapsed,
                                   delay |-> delay, slept |-> FALSE,
                                   min |-> min_delay, max |-> max_delay]]
                  ELSE [raised |-> FALSE, now |-> now + delay, last |-> now + delay,
                        limit |-> [ran |-> TRUE, drew |-> TRUE, elapsed |-> elapsed,
                                   delay |-> delay, slept |-> TRUE,
                                   min |-> min_delay, max |-> max_delay]]
             ELSE [raised |-> FALSE, now |-> now, last |-> now,
                   limit |-> [ran |-> TRUE, drew |-> FALSE, elapsed |-> elapsed,
                              delay |-> 0, slept |-> FALSE,
                              min |-> min_delay, max |-> max_delay]]

\* A seeded fault of GetPageInvalid: the rate limiter runs before the URL
\* is looked at
GetPageInvalidLimited(url) ==
    /\ ~UrlParse(url).ok \/ ~ValidUrl(UrlParse(url))
    /\ gp_call' = [op |-> "get_page", url |-> url,
                   outcome |-> IF UrlParse(url).ok THEN "invalid" ELSE "ValueError",
                   status |-> 0]
    /\ gp_ret' = IF UrlParse(url).ok THEN "None" ELSE Handled("ValueError")
    /\ gp_limit' = ApplyRateLimiting(clock, 0).limit
    /\ last_request_time' = IF ApplyRateLimiting(clock, 0).limit.drew
                            THEN last_request_time
                            ELSE ApplyRateLimiting(clock, 0).last
    /\ UNCHANGED <<clock, rate_limit, min_delay, max_delay, gp_get, gp_gap>>
    /\ ScraperFrame

\* get_page(url) for a URL urlparse rejects or the check refuses: the error
\* is logged, None is returned; no rate limiting, no GET
GetPageInvalid(url) ==
    /\ ~UrlParse(url).ok \/ ~ValidUrl(UrlParse(url))
    /\ gp_call' = [op |-> "get_page", url |-> url,
                   outcome |-> IF UrlParse(url).ok THEN "invalid" ELSE "ValueError",
                   status |-> 0]
    /\ gp_ret' = IF UrlParse(url).ok THEN "None" ELSE Handled("ValueError")
    /\ gp_limit' = NoLimit
    /\ UNCHANGED <<clock, rate_limit, min_delay, max_delay, last_request_time,
                   gp_get, gp_gap>>
    /\ ScraperFrame

\* get_page(url) for a URL that passes the check: the rate limiter, then
\* session.get(url, timeout=30, allow_redirects=True) taking dur seconds,
\* raise_for_status, and the parse.  Every exception is caught and logged
\* ("except RequestException", "except Exception"), and None returned.
GetPage(url) ==
    /\ UrlParse(url).ok /\ ValidUrl(UrlParse(url))
    /\ \E u \in Uniform(0, max_delay - min_delay), outcome \in Transports,
          dur \in 0..1 :
          LET lim == ApplyRateLimiting(clock, u) IN
          /\ lim.now + dur <= MaxClock
          /\ gp_limit' = lim.limit
          /\ last_request_time' = lim.last
          /\ IF lim.raised
             THEN /\ clock' = lim.now
                  /\ gp_call' = [op |-> "get_page", url |-> url,
                                 outcome |-> "ValueError", status |-> 0]
                  /\ gp_ret' = Handled("ValueError")
                  /\ UNCHANGED <<gp_get, gp_gap>>
             ELSE /\ clock' = lim.now + dur
                  /\ gp_call' = [op |-> "get_page", url |-> url,
                                 outcome |-> outcome.kind, status |-> outcome.status]
                  /\ gp_ret' = IF outcome.kind # "response"
                               THEN Handled(outcome.kind)
                               ELSE IF RaiseForStatus(outcome.status)
                               THEN Handled("HTTPError")
                               ELSE "soup"
                  /\ gp_get' = [issued |-> TRUE, at |-> lim.now,
                                limited |-> rate_limit]
                  /\ gp_gap' = IF gp_get.issued /\ gp_get.limited /\ rate_limit
                               THEN [known |-> TRUE, gap |-> lim.now - gp_get.at,
                                     min_delay |-> min_delay]
                               ELSE [known |-> FALSE, gap |-> 0, min_delay |-> 0]
    /\ UNCHANGED <<rate_limit, min_delay, max_delay>>
    /\ ScraperFrame

NextScraper ==
    \/ \E min \in DelayValues, max \in DelayValues : EnableRateLimiting(min, max)
    \/ Tick
    \/ \E url \in Urls : GetPageInvalid(url)
    \/ \E url \in Urls : GetPage(url)

----------------------------------------------------------------------------
(* basic_scraper: resolve_url and NewsScraper.extract_data.  An article    *)
(* node is the record of what its select_one calls find.                   *)

\* The longest document
MaxArticles == 3

\* An Optional[str]
NoStr == [some |-> FALSE, v |-> <<>>]

SomeStr(v) == [some |-> TRUE, v |-> v]

\* Python's truth of an Optional[str]: neither None nor ""
Truthy(opt) == opt.some /\ opt.v # <<>>

\* Index of the last "/" of str at or before index i; 0 if there is none
RECURSIVE LastSlash(_, _)
LastSlash(str, i) ==
    IF i = 0 THEN 0 ELSE IF str[i] = "/" THEN i ELSE LastSlash(str, i - 1)

\* urllib.parse.urljoin(base, url) for a non-empty url, as far as the
\* model's URLs go: [ok, url]; ok is FALSE for the ValueError urlparse
\* raises.  A url with a scheme is returned as it is; one with an authority
\* takes the scheme of base; a path replaces the path of base, or its last
\* segment.
UrlJoin(base, url) ==
    LET b == UrlParse(base)
        u == UrlParse(url)
        origin == b.scheme \o <<":", "/", "/">> \o b.netloc
        path == SubSeq(base, Len(origin) + 1, Len(base))
    IN  IF ~u.ok THEN [ok |-> FALSE, url |-> <<>>]
        ELSE IF u.scheme # <<>> THEN [ok |-> TRUE, url |-> url]
        ELSE IF u.netloc # <<>> THEN [ok |-> TRUE, url |-> b.scheme \o <<":">> \o url]
        ELSE IF url[1] = "/" THEN [ok |-> TRUE, url |-> origin \o url]
        ELSE [ok |-> TRUE,
              url |-> origin \o SubSeq(path, 1, LastSlash(path, Len(path))) \o url]

\* resolve_url(base_url, relative_url): None for None or "", and for a url
\* urljoin raises on
ResolveUrl(base, rel) ==
    IF ~Truthy(rel) THEN NoStr
    ELSE IF UrlJoin(base, rel.v).ok THEN SomeStr(UrlJoin(base, rel.v).url)
    ELSE NoStr

\* self.base_url: "https://e/p"
BaseUrl == <<"h", "t", "t", "p", "s", ":", "/", "/", "e", "/", "p">>

\* What select_one finds: nothing, or an element with its text and the
\* attribute extract_data reads from it (href of a, src of img)
NoElem == [present |-> FALSE, text |-> <<>>, attr |-> NoStr]

Elem(text) == [present |-> TRUE, text |-> text, attr |-> NoStr]

AttrElem(attr) == [present |-> TRUE, text |-> <<>>, attr |-> attr]

\* "x or y" of two select_one results: a Tag is true whatever is in it
OrElem(x, y) == IF x.present THEN x ELSE y

\* elem.get_text(strip=True) if elem else None
TextOf(elem) == IF elem.present THEN SomeStr(Strip(elem.text)) ELSE NoStr

Article(h2, h3, a, p, description, date, time, img) ==
    [h2 |-> h2, h3 |-> h3, a |-> a, p |-> p, description |-> description,
     date |-> date, time |-> time, img |-> img]

TitleText == <<" ", "T", " ">>

RelHref == SomeStr(<<"/", "x">>)

AbsHref == SomeStr(<<"h", "t", "t", "p", "s", ":", "/", "/", "o", "/", "y">>)

BadHref == SomeStr(<<"h", "t", "t", "p", ":", "/", "/", "[", "e">>)

\* The article nodes documents are made of
ArticleNodes ==
    { \* every element there
      Article(Elem(TitleText), NoElem, AttrElem(RelHref), Elem(<<"P">>), NoElem,
              Elem(<<"D">>), NoElem, AttrElem(SomeStr(<<"i">>))),
      \* an h3 title, an absolute link, nothing else
      Article(NoElem, Elem(<<"H">>), AttrElem(AbsHref), NoElem, NoElem, NoElem,
              NoElem, NoElem),
      \* a link and no heading
      Article(NoElem, NoElem, AttrElem(RelHref), Elem(<<"P">>), NoElem, NoElem,
              NoElem, NoElem),
      \* a title and no a
      Article(Elem(TitleText), NoElem, NoElem, NoElem, NoElem, NoElem, NoElem,
              NoElem),
      \* a title and an a without href
      Article(Elem(TitleText), NoElem, AttrElem(NoStr), NoElem, NoElem, NoElem,
              NoElem, NoElem),
      \* a title and href=""
      Article(Elem(TitleText), NoElem, AttrElem(SomeStr(<<>>)), NoElem, NoElem,
              NoElem, NoElem, NoElem),
      \* a blank h2 before an h3, and a link
      Article(Elem(<<" ">>), Elem(<<"H">>), AttrElem(RelHref), NoElem, NoElem,
              NoElem, NoElem, NoElem),
      \* a title and a link urljoin raises on
      Article(Elem(TitleText), NoElem, AttrElem(BadHref), NoElem, NoElem, NoElem,
              NoElem, NoElem),
      \* .description and time instead of p and .date; an img urljoin raises on
      Article(Elem(TitleText), NoElem, AttrElem(RelHref), NoElem, Elem(<<"S">>),
              NoElem, Elem(<<"M">>), AttrElem(BadHref)),
      \* an img without src, an empty p
      Article(NoElem, Elem(<<"H">>), AttrElem(RelHref), Elem(<<>>), Elem(<<"S">>),
              NoElem, NoElem, AttrElem(NoStr)) }

Documents == UNION {[1..n -> ArticleNodes] : n \in 0..MaxArticles}

\* A seeded fault of Emits: the title is not looked at
EmitsOnLink(title, link) == Truthy(link)

\* "if title and link", title being a str and link an Optional[str]
Emits(title, link) == title # <<>> /\ Truthy(link)

\* The body of the for loop for one article: [emit, record]
ExtractArticle(article) ==
    LET title_elem == OrElem(article.h2, article.h3)
        link_elem == article.a
        title == Strip(title_elem.text)
        href == link_elem.attr
        link == IF Truthy(href) THEN ResolveUrl(BaseUrl, href) ELSE href
        description == TextOf(OrElem(article.p, article.description))
        date == TextOf(OrElem(article.date, article.time))
        img_url == IF article.img.present /\ Truthy(article.img.attr)
                   THEN ResolveUrl(BaseUrl, article.img.attr) ELSE NoStr
    IN  IF title_elem.present /\ link_elem.present /\ Emits(title, link)
        THEN [emit |-> TRUE,
              record |-> [title |-> title, link |-> link.v,
                          description |-> description, date |-> date,
                          image_url |-> img_url]]
        ELSE [emit |-> FALSE, record |-> <<>>]

InitExtractVars ==
    /\ ex_pc = "idle"
    /\ ex_doc = <<>>
    /\ ex_i = 1
    /\ ex_articles = <<>>
    /\ ex_from = <<>>

\* extract_data(soup) is called: articles = [], soup.select('article')
ExtractData(doc) ==
    /\ ex_pc = "idle"
    /\ ex_pc' = "loop"
    /\ ex_doc' = doc
    /\ ex_i' = 1
    /\ ex_articles' = <<>>
    /\ ex_from' = <<>>
    /\ ExtractFrame

\* One turn of "for article in soup.select('article')"
ExtractNext ==
    /\ ex_pc = "loop"
    /\ ex_i <= Len(ex_doc)
    /\ LET out == ExtractArticle(ex_doc[ex_i]) IN
       /\ ex_articles' = IF out.emit THEN Append(ex_articles, out.record)
                         ELSE ex_articles
       /\ ex_from' = IF out.emit THEN Append(ex_from, ex_i) ELSE ex_from
    /\ ex_i' = ex_i + 1
    /\ UNCHANGED <<ex_pc, ex_doc>>
    /\ ExtractFrame

\* The loop is over: "return articles"
ExtractReturn ==
    /\ ex_pc = "loop"
    /\ ex_i > Len(ex_doc)
    /\ ex_pc' = "done"
    /\ UNCHANGED <<ex_doc, ex_i, ex_articles, ex_from>>
    /\ ExtractFrame

NextExtract ==
    \/ \E doc \in Documents : ExtractData(doc)
    \/ ExtractNext
    \/ ExtractReturn

----------------------------------------------------------------------------
(* data_utils: safe_filename                                               *)

\* The longest file name passed
MaxNameLen == 4

\* unsafe_chars
UnsafeChars == {"/", "\\", ":", "*", "?", "\"", "<", ">", "|"}

\* The characters the names passed are made of
NameChars == {"a", " ", "_", "/", "\t"}

NamesPassed == UNION {[1..n -> NameChars] : n \in 0..MaxNameLen}

\* The for loop: filename.replace(char, '_') for each unsafe character
ReplaceUnsafe(str) == [j \in DOMAIN str |-> IF str[j] \in UnsafeChars THEN "_" ELSE str[j]]

\* filename.replace(c + c, c): the pairs found from the left, none
\* overlapping another, become one character each
RECURSIVE ReplacePair(_, _)
ReplacePair(str, c) ==
    IF Len(str) < 2 THEN str
    ELSE IF str[1] = c /\ str[2] = c
    THEN <<c>> \o ReplacePair(SubSeq(str, 3, Len(str)), c)
    ELSE <<str[1]>> \o ReplacePair(Tail(str), c)

\* c + c in filename
HasPair(str, c) == \E j \in 1..(Len(str) - 1) : str[j] = c /\ str[j + 1] = c

\* A seeded fault of Collapse: one replace, no loop
CollapseOnce(str, c) == ReplacePair(str, c)

\* while c + c in filename: filename = filename.replace(c + c, c)
RECURSIVE Collapse(_, _)
Collapse(str, c) == IF HasPair(str, c) THEN Collapse(ReplacePair(str, c), c) ELSE str

InitFilenameVars ==
    /\ fn_pc = "call"
    /\ fn_in \in NamesPassed
    /\ fn_name = fn_in

\* The state outside a call of safe_filename
RestFilename ==
    /\ fn_pc = "call"
    /\ fn_in = <<>>
    /\ fn_name = <<>>

ReplaceUnsafeChars ==
    /\ fn_pc = "call"
    /\ fn_name' = ReplaceUnsafe(fn_name)
    /\ fn_pc' = "replaced"
    /\ UNCHANGED fn_in
    /\ FilenameFrame

CollapseSpaces ==
    /\ fn_pc = "replaced"
    /\ fn_name' = Collapse(fn_name, " ")
    /\ fn_pc' = "spaces"
    /\ UNCHANGED fn_in
    /\ FilenameFrame

CollapseUnderscores ==
    /\ fn_pc = "spaces"
    /\ fn_name' = Collapse(fn_name, "_")
    /\ fn_pc' = "underscores"
    /\ UNCHANGED fn_in
    /\ FilenameFrame

\* return filename.strip()
StripAndReturn ==
    /\ fn_pc = "underscores"
    /\ fn_name' = Strip(fn_name)
    /\ fn_pc' = "done"
    /\ UNCHANGED fn_in
    /\ FilenameFrame

NextFilename ==
    \/ ReplaceUnsafeChars
    \/ CollapseSpaces
    \/ CollapseUnderscores
    \/ StripAndReturn

----------------------------------------------------------------------------
(* data_utils: ensure_directory called on its own                          *)

\* The number of calls of ensure_directory in a behaviour
MaxCalls == 2

\* The paths passed: '', a, a/b, a/b/c, f (a file), f/x
DirPaths == {<<>>, <<"a">>, <<"a", "b">>, <<"a", "b", "c">>, <<"f">>, <<"f", "x">>}

InitDirectoryVars ==
    /\ platform = [os |-> "posix", enc |-> "utf-8"]
    /\ fs_dirs \in {{}, {<<"a">>}, {<<"a">>, <<"a", "b">>}}
    /\ fs_files \in {<<>>, [q \in {<<"f">>} |-> OldBytes]}
    /\ st_pc = "idle"
    /\ st_call = NoStoreCall
    /\ st_ret = PyNone
    /\ st_temp = <<>>
    /\ st_old = Absent
    /\ st_prev = [call |-> NoStoreCall, ret |-> PyNone]
    /\ saves = 0
    /\ ed_log = <<>>

\* ensure_directory(path)
EnsureDirectoryCall(path, fail) ==
    /\ Len(ed_log) < MaxCalls
    /\ LET r == EnsureDirectoryResult(fs_dirs, fs_files, path, fail)
       IN  /\ fs_dirs' = r.dirs
           /\ ed_log' = Append(ed_log, [path |-> path, fail |-> fail, ret |-> r.ret,
                                        before |-> fs_dirs, after |-> r.dirs,
                                        files |-> fs_files])
    /\ UNCHANGED <<platform, fs_files, st_pc, st_call, st_ret, st_temp, st_old,
                   st_prev, saves>>
    /\ DirectoryFrame

NextDirectory == \E path \in DirPaths : \E fail \in 0..Len(path) : EnsureDirectoryCall(path, fail)

----------------------------------------------------------------------------
(* The specifications.  In each, one component runs and the others stay  *)
(* as constructed.                                                         *)

\* The components at rest: no environment, no file, no call
RestConfig ==
    /\ env = <<>>
    /\ config = [sections |-> <<>>, defaults |-> <<>>]
    /\ cfg_call = NoCall
    /\ cfg_ret = PyNone

RestStore ==
    /\ platform = [os |-> "posix", enc |-> "utf-8"]
    /\ fs_dirs = {}
    /\ fs_files = <<>>
    /\ st_pc = "idle"
    /\ st_call = NoStoreCall
    /\ st_ret = PyNone
    /\ st_temp = <<>>
    /\ st_old = Absent
    /\ st_prev = [call |-> NoStoreCall, ret |-> PyNone]
    /\ saves = 0
    /\ ed_log = <<>>

RestSched ==
    /\ sc_pc = "poll"
    /\ sc_now = 0
    /\ sc_next = [j \in {"backup", "report", "clean"} |-> Period[j]]
    /\ sc_queue = <<>>
    /\ sc_job = "none"
    /\ sc_ret = "none"
    /\ sc_status = "alive"
    /\ sc_signal = "none"
    /\ sc_at = [pc |-> "none", job |-> "none"]
    /\ sc_failed = {}

RestScraper == InitScraperVars

RestExtract == InitExtractVars

InitConfig == InitConfigVars /\ RestStore /\ RestSched /\ RestScraper /\ RestExtract /\ RestFilename

SpecConfig == InitConfig /\ [][NextConfig]_vars

InitTyped == InitTypedVars /\ RestStore /\ RestSched /\ RestScraper /\ RestExtract /\ RestFilename

SpecTyped == InitTyped /\ [][NextTyped]_vars

InitStore == InitStoreVars /\ RestConfig /\ RestSched /\ RestScraper /\ RestExtract /\ RestFilename

SpecStore == InitStore /\ [][NextStore]_vars

InitSched == InitSchedVars /\ RestConfig /\ RestStore /\ RestScraper /\ RestExtract /\ RestFilename

InitScraper == InitScraperVars /\ RestConfig /\ RestStore /\ RestSched /\ RestExtract /\ RestFilename

InitExtract == InitExtractVars /\ RestConfig /\ RestStore /\ RestSched /\ RestScraper /\ RestFilename

SpecExtract == InitExtract /\ [][NextExtract]_vars

InitFilename ==
    InitFilenameVars /\ RestConfig /\ RestStore /\ RestSched /\ RestScraper /\ RestExtract

SpecFilename == InitFilename /\ [][NextFilename]_vars

InitDirectory ==
    /\ InitDirectoryVars
    /\ RestConfig /\ RestSched /\ RestScraper /\ RestExtract /\ RestFilename

SpecDirectory == InitDirectory /\ [][NextDirectory]_vars

SpecScraper == InitScraper /\ [][NextScraper]_vars

SpecSched == InitSched /\ [][NextSched]_vars

----------------------------------------------------------------------------
(* The claims about ConfigLoader (checked under SpecConfig)                *)

\* get returned a str that is the file's value raw, or with its "%%" and
\* "%(name)s" replaced as the parser replaces them
FileValueReturned(raw) ==
    /\ cfg_ret.t = "str"
    /\ \/ cfg_ret.s = raw
       \/ \E j \in DOMAIN raw : raw[j] = "%"

\* C1: ConfigLoader.get resolves environment -> file -> default.  After
\* every get(section, key, default): if the environment variable
\* {PREFIX}{SECTION}_{KEY} (section and key upper-cased) is set, its value
\* was returned whatever the file holds; otherwise, if the file has the
\* option (in the section, or through [DEFAULT] for a section that exists),
\* the file's value was returned; otherwise the caller's default.
C1_ResolutionOrder ==
    cfg_call.op = "get" =>
        LET name == EnvPrefix \o Upper(cfg_call.section) \o <<"_">> \o Upper(cfg_call.key)
            sec == cfg_call.section
            opt == Lower(cfg_call.key)
            known == sec \in DOMAIN config.sections
        IN  IF name \in DOMAIN env
            THEN cfg_ret = PyStr(env[name])
            ELSE IF known /\ opt \in DOMAIN config.sections[sec]
            THEN FileValueReturned(config.sections[sec][opt])
            ELSE IF (known \/ sec = DefaultSection) /\ opt \in DOMAIN config.defaults
            THEN FileValueReturned(config.defaults[opt])
            ELSE cfg_ret = cfg_call.default

\* The raw value the last call resolved, from the environment or else from
\* the file as it stands there: [found, raw]
ResolvedRaw ==
    LET name == EnvVarName(cfg_call.section, cfg_call.key)
        sec == cfg_call.section
        opt == Lower(cfg_call.key)
    IN  IF name \in DOMAIN env THEN [found |-> TRUE, raw |-> env[name]]
        ELSE IF sec \in DOMAIN config.sections /\ opt \in DOMAIN config.sections[sec]
        THEN [found |-> TRUE, raw |-> config.sections[sec][opt]]
        ELSE [found |-> FALSE, raw |-> <<>>]

\* The words that are no less booleans than the ones taken for True
FalseWords == {<<"f", "a", "l", "s", "e">>, <<"n", "o">>, <<"0">>, <<"o", "f", "f">>,
               <<"f">>, <<"n">>}

\* C13: the typed accessors never raise; for a resolved raw value that
\* cannot be converted to the requested type they return the caller's
\* default, for a convertible one the converted value.
C13_TypedAccessorsFallBack ==
    cfg_call.op \in {"get_int", "get_float", "get_boolean", "get_list"} =>
        /\ cfg_ret.t # "raise"
        /\ ResolvedRaw.found =>
              LET raw == ResolvedRaw.raw IN
              CASE cfg_call.op = "get_int" ->
                     cfg_ret = (IF IntOfStr(raw).ok THEN IntOfStr(raw).val
                                ELSE cfg_call.default)
                [] cfg_call.op = "get_float" ->
                     cfg_ret = (IF FloatOfStr(raw).ok THEN FloatOfStr(raw).val
                                ELSE cfg_call.default)
                [] cfg_call.op = "get_boolean" ->
                     cfg_ret = (IF Lower(raw) \in TrueWords THEN PyBool(TRUE)
                                ELSE IF Lower(raw) \in FalseWords THEN PyBool(FALSE)
                                ELSE cfg_call.default)
                [] OTHER -> cfg_ret.t = "list"

\* The value get_dict's result holds for key: [found, val]
RetEntry(key) ==
    IF \E j \in DOMAIN cfg_ret.items : cfg_ret.items[j].k = PyStr(key)
    THEN [found |-> TRUE, val |-> DictGet(cfg_ret, PyStr(key))]
    ELSE [found |-> FALSE, val |-> PyNone]

\* C14: get_dict(section) returns the file section's pairs merged with the
\* variables {PREFIX}{SECTION}_{KEY}, a variable winning over the file; for
\* a section the file lacks it returns an empty mapping; it does not fail.
C14_DictMergesEnvOverFile ==
    cfg_call.op = "get_dict" =>
        LET sec == cfg_call.section
            known == sec \in DOMAIN config.sections
        IN  /\ cfg_ret.t = "dict"
            /\ ~known => cfg_ret.items = <<>>
            /\ known =>
                  \A j \in DOMAIN OptionNames :
                     LET key == OptionNames[j]
                         name == EnvVarName(sec, key)
                     IN  IF name \in DOMAIN env
                         THEN RetEntry(key) = [found |-> TRUE, val |-> PyStr(env[name])]
                         ELSE IF key \in DOMAIN config.sections[sec]
                         THEN RetEntry(key).found
                         ELSE TRUE

----------------------------------------------------------------------------
(* The claims about save_json, load_json and save_csv (checked under       *)
(* SpecStore)                                                              *)

\* The complete new content of a save: the whole dump, encoded; none when
\* the dump or the encoding raises, or when there is nothing to write
NewContent(call) ==
    IF call.op = "save_csv" /\ call.data.items = <<>> THEN {}
    ELSE LET dump == DumpOf(call, platform.os)
             enc == Encode(dump.text, platform.enc)
         IN  IF dump.ok /\ enc.ok THEN {[exists |-> TRUE, bytes |-> enc.bytes]}
             ELSE {}

\* C2: save_json and save_csv write atomically.  At every point during and
\* after a save, a reader of the target path finds what the save found
\* there (the previous content, or no file) or the complete new content.
C2_TargetNeverPartial ==
    st_call.op \in {"save_json", "save_csv"} =>
        \/ FileAt(fs_files, st_call.path) = st_old
        \/ FileAt(fs_files, st_call.path) \in NewContent(st_call)

\* Values JSON holds as they are: the keys of every dict are strs
RECURSIVE JsonNative(_)
JsonNative(v) ==
    CASE v.t \in {"none", "bool", "int", "str"} -> TRUE
      [] v.t = "list" -> \A j \in DOMAIN v.items : JsonNative(v.items[j])
      [] v.t = "dict" -> \A j \in DOMAIN v.items :
                            v.items[j].k.t = "str" /\ JsonNative(v.items[j].v)
      [] OTHER -> FALSE

\* C9: the JSON round trip, for the values JSON holds as they are.  A
\* load_json(path) that follows a save_json(x, path) which reported success
\* returns a value equal to x.
C9_JsonRoundTrip ==
    ( /\ st_call.op = "load_json"
      /\ st_prev.call.op = "save_json"
      /\ st_prev.call.path = st_call.path
      /\ st_prev.ret = PyBool(TRUE)
      /\ JsonNative(st_prev.call.data) )
    => PyEq(st_ret, st_prev.call.data)

\* C10: save_csv with no rows returns False and writes nothing.  A step
\* that is such a call leaves the directories and the files (the target and
\* any temporary file among them) as they were and starts no write.
C10_EmptyCsvNoWrite ==
    [][ ( /\ st_pc = "idle"
          /\ st_call'.op = "save_csv"
          /\ st_call'.data.items = <<>>
          /\ st_prev' = [call |-> st_call, ret |-> st_ret] )
        => ( /\ st_ret' = PyBool(FALSE)
             /\ fs_dirs' = fs_dirs
             /\ fs_files' = fs_files
             /\ st_pc' = "idle" ) ]_vars

\* C10's case: save_csv([]) on an existing target, which it left in place
C10_EmptyCsvOnExistingTarget ==
    /\ st_call.op = "save_csv"
    /\ st_call.data.items = <<>>
    /\ st_ret = PyBool(FALSE)
    /\ st_pc = "idle"
    /\ st_call.path \in DOMAIN fs_files
    /\ fs_files[st_call.path] = OldBytes

\* What C11 expects load_csv to return for the saved rows: one dict per
\* row, keyed by the first row's keys in their order, the values as strings
CsvExpected(data) ==
    LET names == DictKeys(data.items[1]) IN
    PyList([r \in DOMAIN data.items |->
              PyDict([j \in DOMAIN names |->
                        Entry(PyStr(CsvField(names[j])),
                              PyStr(CsvField(DictGet(data.items[r], names[j]))))])])

\* C11: the CSV round trip.  A load_csv(path) that follows a save_csv(rows,
\* path) which reported success returns one record per row, in order, the
\* fields being the strings of the saved values under the first row's keys.
C11_CsvRoundTrip ==
    ( /\ st_call.op = "load_csv"
      /\ st_prev.call.op = "save_csv"
      /\ st_prev.call.path = st_call.path
      /\ st_prev.ret = PyBool(TRUE) )
    => st_ret = CsvExpected(st_prev.call.data)

\* The files NamedTemporaryFile made that are still there
TempFilesLeft ==
    {q \in DOMAIN fs_files : \E j \in DOMAIN TempNames : q[Len(q)] = TempNames[j]}

\* C12: a save_json or save_csv that fails returns False and leaves no
\* temporary file behind.
C12_NoTempAfterFailedSave ==
    ( /\ st_pc = "idle"
      /\ st_call.op \in {"save_json", "save_csv"}
      /\ st_ret = PyBool(FALSE) )
    => TempFilesLeft = {}

----------------------------------------------------------------------------
(* The claims about run_scheduler (checked under SpecSched)                *)

\* C3: a task that raises is caught and logged for its job and does not
\* abort the polling loop.  Once a task has raised, run_scheduler has still
\* not returned: the loop goes on polling (unless a signal ended it).
C3_TaskFailureKeepsLoop ==
    sc_failed # {} => sc_pc # "returned" /\ sc_ret # "False"

\* C4 as stated: a termination signal only sets the loop to exit, and the
\* loop leaves at its next check boundary, not in the middle of a poll or
\* of a running job, and not as a loop failure.
C4_ExitAtCheckBoundary ==
    sc_pc = "exited" =>
        /\ sc_at.pc \notin {"run", "in_job"}
        /\ sc_at.job = "none"
        /\ sc_ret # "False"

\* C4 as amended: a termination signal ends the loop at once, wherever it
\* is: in a step where SIGINT or SIGTERM is delivered, SystemExit(0) leaves
\* run_scheduler from the place it was at (a running task is abandoned),
\* the process exits with status 0, and run_scheduler has returned nothing,
\* so no loop failure is reported.
C4_SignalExitsAtOnce ==
    /\ sc_signal # "none" =>
          /\ sc_pc = "exited"
          /\ sc_status = "exit 0"
          /\ sc_ret = "none"
          /\ sc_at.pc \in {"poll", "run", "in_job", "sleep"}
    /\ sc_pc = "exited" => sc_signal \in Signals

\* C4's case: the signal came in the middle of a running task, and the
\* process exited there with status 0
C4_ExitInsideJob ==
    /\ sc_signal = "SIGTERM"
    /\ sc_pc = "exited"
    /\ sc_status = "exit 0"
    /\ sc_at.pc = "in_job"
    /\ sc_at.job = "backup"
    /\ sc_job = "backup"
    /\ sc_queue # <<>>

\* C5: with rate limiting enabled, the time between two consecutive
\* requests of an instance is never below min_delay.
C5_GapAtLeastMinDelay == gp_gap.known => gp_gap.gap >= gp_gap.min_delay

\* C6: the delay the rate limiter draws is never negative, and lies in
\* [min_delay, max_delay], whatever configuration enable_rate_limiting took.
C6_DelayWithinBounds ==
    gp_limit.drew =>
        /\ gp_limit.delay >= 0
        /\ gp_limit.min <= gp_limit.delay
        /\ gp_limit.delay <= gp_limit.max

\* The URL of the last get_page call has a scheme and an authority
GpUrlValid == UrlParse(gp_call.url).ok /\ ValidUrl(UrlParse(gp_call.url))

HasTitleAndLink(node) ==
    /\ \/ node.h2.present /\ Strip(node.h2.text) # <<>>
       \/ ~node.h2.present /\ node.h3.present /\ Strip(node.h3.text) # <<>>
    /\ node.a.present /\ node.a.attr.some /\ node.a.attr.v # <<>>
    /\ UrlJoin(BaseUrl, node.a.attr.v).ok

\* C8: extract_data emits a record for exactly the article nodes that have
\* both a non-empty title and a non-empty resolved link; every record has
\* both non-empty; an optional field whose element is missing is None; the
\* records are in the document order of their nodes.
C8_RecordsNeedTitleAndLink ==
    /\ Len(ex_from) = Len(ex_articles)
    /\ \A k \in 1..Len(ex_articles) :
          LET node == ex_doc[ex_from[k]] IN
          /\ ex_articles[k].title # <<>> /\ ex_articles[k].link # <<>>
          /\ (~node.p.present /\ ~node.description.present)
                => ~ex_articles[k].description.some
          /\ (~node.date.present /\ ~node.time.present) => ~ex_articles[k].date.some
          /\ (~node.img.present \/ ~node.img.attr.some)
                => ~ex_articles[k].image_url.some
    /\ \A k \in 1..(Len(ex_from) - 1) : ex_from[k] < ex_from[k + 1]
    /\ \A j \in 1..Len(ex_doc) :
          j < ex_i => ((\E k \in 1..Len(ex_from) : ex_from[k] = j)
                          <=> HasTitleAndLink(ex_doc[j]))

\* A document of three articles, the second with a link and a blank title,
\* gave the records of the first and the third, the third without its
\* optional fields
C8_SkipsUntitledKeepsOrder ==
    /\ ex_pc = "done"
    /\ ex_from = <<1, 3>>
    /\ ex_doc[2].a.present /\ Truthy(ex_doc[2].a.attr)
    /\ ~HasTitleAndLink(ex_doc[2])
    /\ ex_articles[1].description.some
    /\ ~ex_articles[2].description.some /\ ~ex_articles[2].image_url.some

----------------------------------------------------------------------------
(* The claims about safe_filename (checked under SpecFilename)             *)

\* What safe_filename returns is free of the unsafe characters, of runs of
\* underscores and of whitespace at its ends
CleanName ==
    /\ \A j \in DOMAIN fn_name : fn_name[j] \notin UnsafeChars
    /\ ~\E j \in 1..(Len(fn_name) - 1) : fn_name[j] = "_" /\ fn_name[j + 1] = "_"
    /\ fn_name # <<>> => (fn_name[1] \notin Whitespace
                          /\ fn_name[Len(fn_name)] \notin Whitespace)

\* C15 as stated: the result holds no unsafe character, no run of two or
\* more whitespace characters, no run of two or more underscores and no
\* whitespace at its ends.
C15_NoWhitespaceRuns ==
    fn_pc = "done" =>
        /\ CleanName
        /\ ~\E j \in 1..(Len(fn_name) - 1) :
               fn_name[j] \in Whitespace /\ fn_name[j + 1] \in Whitespace

\* C15, amended: the result holds no unsafe character, no run of two or
\* more spaces, no run of two or more underscores and no whitespace at its
\* ends; other whitespace (tabs, line breaks) inside the name stays as it is.
C15_NoSpaceRuns ==
    fn_pc = "done" =>
        /\ CleanName
        /\ ~\E j \in 1..(Len(fn_name) - 1) : fn_name[j] = " " /\ fn_name[j + 1] = " "

\* A name with two spaces in a row before an unsafe character came back
\* with one space before an underscore
C15_CollapsedName ==
    /\ fn_pc = "done"
    /\ \E j \in 1..(Len(fn_in) - 2) :
          fn_in[j] = " " /\ fn_in[j + 1] = " " /\ fn_in[j + 2] \in UnsafeChars
    /\ Len(fn_name) < Len(fn_in)
    /\ \E j \in 1..(Len(fn_name) - 1) : fn_name[j] = " " /\ fn_name[j + 1] = "_"

----------------------------------------------------------------------------
(* The claims about ensure_directory (checked under SpecDirectory)         *)

\* The call e was for a creatable path: a path that is not empty, with no
\* file at it or above it, and with nothing the OS refuses to make
Creatable(e) ==
    /\ e.path # <<>>
    /\ \A i \in 1..Len(e.path) : SubSeq(e.path, 1, i) \notin DOMAIN e.files
    /\ e.fail = 0 \/ SubSeq(e.path, 1, e.fail) \in e.before

\* C16: a call for a creatable path returns True and leaves the directory
\* and every directory above it present; a call that follows it for the same
\* path returns True and changes nothing; every call returns True or False,
\* and False when os.makedirs failed.
C16_EnsureDirectoryIdempotent ==
    \A k \in 1..Len(ed_log) :
        LET e == ed_log[k] IN
        /\ e.ret \in {PyBool(TRUE), PyBool(FALSE)}
        /\ e.before \subseteq e.after
        /\ Creatable(e) => e.ret = PyBool(TRUE) /\ WithParents(e.path) \subseteq e.after
        /\ (e.path \notin e.after /\ e.path \notin DOMAIN e.files) => e.ret = PyBool(FALSE)
        /\ (k > 1 /\ ed_log[k - 1].path = e.path /\ Creatable(ed_log[k - 1]))
               => e.ret = PyBool(TRUE) /\ e.after = e.before

\* a/b/c was made with both directories above it, and the call after it,
\* for a/b/c again, returned True as well
C16_CreatedThenCalledAgain ==
    /\ Len(ed_log) = 2
    /\ ed_log[1].path = <<"a", "b", "c">> /\ ed_log[2].path = <<"a", "b", "c">>
    /\ ed_log[1].before = {}
    /\ ed_log[1].after = WithParents(<<"a", "b", "c">>)
    /\ ed_log[1].ret = PyBool(TRUE) /\ ed_log[2].ret = PyBool(TRUE)
    /\ fs_dirs = ed_log[1].after

----------------------------------------------------------------------------
(* The claims about the rate limiter's gate (checked under SpecScraper)    *)

\* C17 as stated: the random delay is drawn anew on every check of the gate,
\* whether the check leads to a wait or not, and it is the floor of the gate.
C17_DelayDrawnOnEveryCheck == gp_limit.ran => gp_limit.drew

\* C17, amended: the gate compares the elapsed time against the fixed
\* min_delay; a delay is drawn only when the elapsed time is below min_delay,
\* it is min_delay plus a value between 0 and max_delay - min_delay, and it
\* is slept at once unless it is negative; a check that finds the elapsed
\* time at or above min_delay draws nothing and does not sleep.  Of a gate
\* that did not fail, only its leaving time is kept, in last_request_time.
C17_FixedFloorDrawOnWait ==
    gp_limit.ran =>
        /\ gp_limit.drew <=> gp_limit.elapsed < gp_limit.min
        /\ gp_limit.drew =>
               /\ gp_limit.delay - gp_limit.min \in Uniform(0, gp_limit.max - gp_limit.min)
               /\ gp_limit.slept <=> gp_limit.delay >= 0
        /\ ~gp_limit.drew => ~gp_limit.slept /\ gp_limit.delay = 0
        /\ (gp_limit.drew => gp_limit.slept)
               => gp_get.issued /\ last_request_time = gp_get.at

\* Between two rate-limited requests at least min_delay > 0 passed, and the
\* gate of the second, with min_delay < max_delay, drew no delay and did not
\* sleep
C17_GatePassedWithoutDraw ==
    /\ gp_gap.known
    /\ gp_limit.ran /\ ~gp_limit.drew /\ ~gp_limit.slept
    /\ 0 < gp_limit.min /\ gp_limit.min < gp_limit.max
    /\ gp_limit.elapsed >= gp_limit.min

----------------------------------------------------------------------------
(* The frame of get_page (checked under SpecScraper, whose clock never     *)
(* runs backwards)                                                         *)

\* C18: a step that records a get_page call whose URL fails the check
\* takes no time, issues no GET, does not run the rate limiter and leaves
\* last_request_time, min_delay and max_delay as they were; while rate
\* limiting is disabled no step changes last_request_time or runs the
\* limiter, and a GET is issued at the moment of its call; no step that
\* records a call or a GET changes min_delay or max_delay;
\* last_request_time changes only in a call with a valid URL made with rate
\* limiting enabled, and then it grows.
C18_GetPageFrame ==
    [][ /\ (/\ <<gp_call, gp_ret, gp_limit>>' # <<gp_call, gp_ret, gp_limit>>
            /\ gp_call'.url \notin ValidUrls)
            => /\ UNCHANGED <<clock, last_request_time, min_delay, max_delay,
                              rate_limit, gp_get>>
               /\ ~gp_limit'.ran /\ ~gp_limit'.slept
        /\ ~rate_limit
            => /\ UNCHANGED last_request_time
               /\ ~gp_limit'.ran /\ ~gp_limit'.slept
               /\ gp_get' # gp_get => gp_get'.issued /\ gp_get'.at = clock
        /\ (min_delay' # min_delay \/ max_delay' # max_delay)
            => UNCHANGED <<clock, last_request_time, gp_call, gp_ret, gp_limit,
                           gp_get, gp_gap>>
        /\ (~rate_limit' \/ gp_call' # gp_call \/ gp_get' # gp_get
               \/ last_request_time' # last_request_time)
            => UNCHANGED <<min_delay, max_delay>>
        /\ last_request_time' # last_request_time
            => /\ rate_limit
               /\ gp_call'.op = "get_page"
               /\ gp_call'.url \in ValidUrls
               /\ gp_limit'.ran
               /\ gp_get'.issued /\ gp_get'.at = last_request_time'
               /\ last_request_time' > last_request_time
      ]_vars

\* After a rate-limited request, a call with rate limiting still enabled
\* was refused for its URL: the time of the last request is still that of
\* the request before
C18_RefusedAfterLimitedRequest ==
    /\ rate_limit
    /\ gp_call.outcome = "invalid"
    /\ gp_ret = "None"
    /\ gp_get.issued /\ gp_get.limited
    /\ last_request_time = gp_get.at
    /\ clock > last_request_time
    /\ ~gp_limit.ran

====
